---------------------------- MODULE Spec2Model ----------------------------
(***************************************************************************)
(* Session-timing and song-counting engine of the workout companion.       *)
(*                                                                         *)
(* Spec         the Interval Session Driver (useIntervalSession) driven by *)
(*              the Interval Plan Model (useIntervalPlan): plan edits,      *)
(*              start/stop, browser timers, credential changes.            *)
(* CounterSpec  the Song Completion Counter (useSongCounterSession) fed by *)
(*              playback snapshots of an external player.                  *)
(*                                                                         *)
(* All times are in milliseconds, as in the source.                        *)
(***************************************************************************)
EXTENDS Integers, Sequences, FiniteSets, TLC

VARIABLES
    clock,            \* wall clock, Date.now()
    tokens,           \* accessToken of the credential held by the provider, or NULL
    plan,             \* useIntervalPlan: the plan state
    edits,            \* number of plan operations performed so far
    state,            \* useIntervalSession: SessionState
    timersRef,        \* useIntervalSession: timersRef.current
    tickRef,          \* useIntervalSession: tickRef.current
    timeouts,         \* browser: pending setTimeout registrations
    intervals,        \* browser: active setInterval registrations
    mounted,          \* whether the component holding the hooks is mounted
    skipCalls,        \* POST /me/player/next issued by the driver since the last start
    event,            \* the last operation performed (history)
    player,           \* remote playback service: what is really playing
    track,            \* useCurrentlyPlaying: the latest snapshot, or NoTrack
    counter,          \* useSongCounterSession: SongCounterState
    activeTrackRef,   \* useSongCounterSession: activeTrackRef.current
    lastFinalizedTrackIdRef,  \* useSongCounterSession: lastFinalizedTrackIdRef.current
    isBusy,           \* useSongCounterSession: isBusy
    skipRequests,     \* skip commands of the counter that are in flight
    firstSong,        \* the track start() began with, while it plays undisturbed (history)
    trackError,       \* useCurrentlyPlaying: error
    isLoading,        \* useCurrentlyPlaying: isLoading
    initialized,      \* useCurrentlyPlaying: initialized
    isActive,         \* useCurrentlyPlaying: the effect activation whose isActive is true
    activations,      \* useCurrentlyPlaying: number of effect activations so far
    pollRef,          \* useCurrentlyPlaying: pollRef.current
    pollMs,           \* useCurrentlyPlaying: the pollMs argument
    fetches,          \* playback-state requests in flight
    fetchCount,       \* number of playback-state requests issued so far
    settled,          \* the request whose response arrived last (history)
    expiresAt,        \* AuthProvider: tokens.expiresAt, or Absent
    hasRefreshToken,  \* AuthProvider: whether tokens.refreshToken is set
    isReady,          \* AuthProvider: isReady
    refreshTimeoutRef,  \* AuthProvider: the pending proactive refresh timer
    refreshingRef,    \* AuthProvider: refreshingRef.current
    refreshRequests,  \* token-refresh requests in flight
    joinedCalls,      \* runRefresh calls awaiting the promise in refreshingRef
    refreshCount,     \* number of token-refresh requests issued so far
    planInput,        \* the raw values the plan was last computed from (history)
    finalizedSince,   \* the track whose accumulator was finalized last in this run,
                      \* while no other track has been tracked since (history)
    finalizedAcc,     \* the accumulator the last step finalized, if any (history)
    skippedTrack,     \* the track skip() finalized in this run, while every snapshot
                      \* since has reported that track (history)
    liveResult,       \* what getLiveProgress returned last, or Absent
    sessionSkips,     \* useIntervalSession: skipTrack requests in flight
    failedSkip,       \* the skipTrack request that failed last, or NoSkip (history)
    responseBody,     \* fetchCurrentTrack: the parsed body of a success response
    builtTrack        \* fetchCurrentTrack: nextTrack built from it, or NoBuilt

sessionOnlyVars ==
    <<plan, edits, state, timersRef, tickRef, timeouts, intervals, mounted, skipCalls>>

counterOnlyVars ==
    <<player, track, counter, activeTrackRef, lastFinalizedTrackIdRef, isBusy,
      skipRequests, firstSong>>

observerOnlyVars ==
    <<trackError, isLoading, initialized, isActive, activations, pollRef, pollMs,
      fetches, fetchCount, settled>>

authOnlyVars ==
    <<expiresAt, hasRefreshToken, isReady, refreshTimeoutRef, refreshingRef,
      refreshRequests, joinedCalls, refreshCount>>

planOnlyVars == <<planInput>>

historyOnlyVars == <<finalizedSince, finalizedAcc, skippedTrack, liveResult>>

skipOnlyVars == <<sessionSkips, failedSkip>>

normalizeOnlyVars == <<responseBody, builtTrack>>

\* null, for a string or an object
NULL == "null"
\* null, for a number (startedAt: number | null, tickRef: number | null)
Absent == -1

--------------------------------------------------------------------------
(* Bounds of the model *)

\* number of 30-second clock steps a behaviour may take
MaxSteps == 4
\* number of plan operations a behaviour may take
MaxEdits == 2
\* number of one-second clock steps a behaviour of the song counter may take
MaxCounterSteps == 2
\* length of the longest track, in seconds
MaxTrackSeconds == 2
\* number of playback-state requests a behaviour of the observer may issue
MaxFetches == 2
\* number of times the observer's effect may run after the first time
MaxActivations == 1
\* number of token-refresh requests a behaviour of the provider may issue, and
\* of runRefresh calls that may wait for one request
MaxMinutes == 12
\* the slice-length selector is called with arguments up to 15 * MaxSliceSteps seconds
MaxSliceSteps == 16
\* length of the longest artist list of a response body
MaxArtists == 2
MaxRefreshes == 2

\* the wall clock advances in steps of 30 s: every slice boundary is a multiple
ClockStepMs == 30 * 1000

Min(a, b) == IF a < b THEN a ELSE b
Max(a, b) == IF a > b THEN a ELSE b

--------------------------------------------------------------------------
(* Interval Plan Model: useIntervalPlan.ts *)

SLICE_OPTIONS_SECONDS == {30, 60, 90, 120, 150, 180, 210}

DEFAULT_PLAN ==
    [totalMinutes |-> 10, includeThirtySeconds |-> FALSE, sliceLengthSeconds |-> 120]

\* a JavaScript number: an integer n, n + 1/2, or a value for which Number.isFinite
\* is false (NaN, Infinity, anything that is not a number)
Num(n) == [finite |-> TRUE, n |-> n, half |-> FALSE]
NonFinite == [finite |-> FALSE, n |-> 0, half |-> FALSE]
\* the number n + 1/2
Half(n) == [finite |-> TRUE, n |-> n, half |-> TRUE]

\* the raw numbers the plan was last computed from, prev.totalMinutes where the
\* updater reads it, and whether the operation before was resetPlan; none given
NoInput ==
    [given |-> FALSE, minutes |-> NonFinite, seconds |-> NonFinite, prevMinutes |-> -1,
     prevWasReset |-> FALSE]

\* a field that is null or undefined, where the code writes `??`
Nullish == [finite |-> FALSE, n |-> -1, half |-> FALSE]

\* twice the value of a finite number, an integer
Twice(value) == 2 * value.n + (IF value.half THEN 1 ELSE 0)

\* Math.floor(value)
Floor(value) == value.n

\* mutant of RoundTo30: Math.floor in place of Math.round
RoundTo30_Floor(value) == (Twice(value) \div 60) * 30

\* Math.round(value / 30) * 30: Math.round is floor(x + 1/2)
RoundTo30(value) == ((Twice(value) + 30) \div 60) * 30

\* mutant of clampMinutes: the lower limit 0 is missing
clampMinutes_NoLowerLimit(value) ==
    IF ~value.finite THEN 0 ELSE Floor(value)

clampMinutes(value) ==
    IF ~value.finite THEN 0 ELSE Max(0, Floor(value))

sanitizeSliceSeconds(value) ==
    IF ~value.finite
    THEN DEFAULT_PLAN.sliceLengthSeconds
    ELSE LET normalized == Max(30, Min(210, RoundTo30(value)))
         IN IF normalized \in SLICE_OPTIONS_SECONDS
            THEN normalized
            ELSE DEFAULT_PLAN.sliceLengthSeconds

totalMs(p) ==
    (p.totalMinutes * 60 + (IF p.includeThirtySeconds THEN 30 ELSE 0)) * 1000

\* mutant of SliceAt: every slice gets the full slice length
SliceAt_FullDuration(index, currentStart, slicesToCreate, sliceMs, remainderMs) ==
    LET isLast == index = slicesToCreate - 1
        isRemainder == isLast /\ remainderMs > 0
        startMs == currentStart
    IN [index |-> index,
        durationMs |-> sliceMs,
        startMs |-> startMs,
        endMs |-> startMs + sliceMs,
        isRemainder |-> isRemainder,
        skipAfter |-> ~isLast]

\* mutant of SliceAt: the last slice too asks for a skip
SliceAt_AlwaysSkipAfter(index, currentStart, slicesToCreate, sliceMs, remainderMs) ==
    LET isLast == index = slicesToCreate - 1
        isRemainder == isLast /\ remainderMs > 0
        durationMs == IF isRemainder THEN remainderMs ELSE sliceMs
        startMs == currentStart
    IN [index |-> index,
        durationMs |-> durationMs,
        startMs |-> startMs,
        endMs |-> startMs + durationMs,
        isRemainder |-> isRemainder,
        skipAfter |-> TRUE]

\* the body of the for loop of computeTimeline: the slice pushed for one index
SliceAt(index, currentStart, slicesToCreate, sliceMs, remainderMs) ==
    LET isLast == index = slicesToCreate - 1
        isRemainder == isLast /\ remainderMs > 0
        durationMs == IF isRemainder THEN remainderMs ELSE sliceMs
        startMs == currentStart
    IN [index |-> index,
        durationMs |-> durationMs,
        startMs |-> startMs,
        endMs |-> startMs + durationMs,
        isRemainder |-> isRemainder,
        skipAfter |-> ~isLast]

\* the for loop of computeTimeline, from `index` on: currentStart = endMs
RECURSIVE pushSlices(_, _, _, _, _, _)
pushSlices(timeline, index, currentStart, slicesToCreate, sliceMs, remainderMs) ==
    IF index >= slicesToCreate
    THEN timeline
    ELSE LET slice == SliceAt(index, currentStart, slicesToCreate, sliceMs, remainderMs)
         IN pushSlices(Append(timeline, slice), index + 1, slice.endMs,
                       slicesToCreate, sliceMs, remainderMs)

\* mutant of computeTimeline: no slice is added for the remainder
computeTimeline_NoRemainderSlice(p) ==
    LET totalDurationMs == totalMs(p)
        sliceMs == p.sliceLengthSeconds * 1000
    IN IF totalDurationMs <= 0
       THEN [totalDurationMs |-> 0, baseSliceDurationMs |-> sliceMs, fullSlices |-> 0,
             remainderMs |-> 0, timeline |-> <<>>, skipCount |-> 0]
       ELSE LET fullSlices == totalDurationMs \div sliceMs
                remainderMs == totalDurationMs - fullSlices * sliceMs
                slicesToCreate == fullSlices + (IF fullSlices = 0 THEN 1 ELSE 0)
                timeline == pushSlices(<<>>, 0, 0, slicesToCreate, sliceMs, remainderMs)
            IN [totalDurationMs |-> totalDurationMs,
                baseSliceDurationMs |-> sliceMs,
                fullSlices |-> fullSlices,
                remainderMs |-> remainderMs,
                timeline |-> timeline,
                skipCount |-> Max(0, Len(timeline) - 1)]

\* mutant of computeTimeline: the early return for an empty plan is missing
computeTimeline_NoEarlyReturn(p) ==
    LET totalDurationMs == totalMs(p)
        sliceMs == p.sliceLengthSeconds * 1000
        fullSlices == totalDurationMs \div sliceMs
        remainderMs == totalDurationMs - fullSlices * sliceMs
        slicesToCreate ==
            fullSlices + (IF remainderMs > 0 \/ fullSlices = 0 THEN 1 ELSE 0)
        timeline == pushSlices(<<>>, 0, 0, slicesToCreate, sliceMs, remainderMs)
    IN [totalDurationMs |-> totalDurationMs,
        baseSliceDurationMs |-> sliceMs,
        fullSlices |-> fullSlices,
        remainderMs |-> remainderMs,
        timeline |-> timeline,
        skipCount |-> Max(0, Len(timeline) - 1)]

computeTimeline(p) ==
    LET totalDurationMs == totalMs(p)
        sliceMs == p.sliceLengthSeconds * 1000
    IN IF totalDurationMs <= 0
       THEN [totalDurationMs |-> 0, baseSliceDurationMs |-> sliceMs, fullSlices |-> 0,
             remainderMs |-> 0, timeline |-> <<>>, skipCount |-> 0]
       ELSE LET fullSlices == totalDurationMs \div sliceMs
                remainderMs == totalDurationMs - fullSlices * sliceMs
                slicesToCreate ==
                    fullSlices + (IF remainderMs > 0 \/ fullSlices = 0 THEN 1 ELSE 0)
                timeline == pushSlices(<<>>, 0, 0, slicesToCreate, sliceMs, remainderMs)
            IN [totalDurationMs |-> totalDurationMs,
                baseSliceDurationMs |-> sliceMs,
                fullSlices |-> fullSlices,
                remainderMs |-> remainderMs,
                timeline |-> timeline,
                skipCount |-> Max(0, Len(timeline) - 1)]

\* useMemo(() => computeTimeline(plan), [plan])
stats == computeTimeline(plan)

--------------------------------------------------------------------------
(* Interval Session Driver: useIntervalSession.ts *)

\* access tokens a credential can carry
Tokens == {"tokA", "tokB"}

IdleState == [status |-> "idle", startedAt |-> Absent, currentSliceIndex |-> 0]

\* how the POST of skipTrack ends: fetch resolves with a success response, resolves
\* with an error response, or rejects
SkipOutcomes == {"ok", "httpError", "networkError"}

\* the POST issued by skipTrack in the callback of one registration, named by the
\* session start and the slice of that callback
skipTrackRequest(t) == [start |-> t.start, index |-> t.index]

\* no skipTrack request
NoSkip == [start |-> Absent, index |-> -1]

\* mutant of skipTrackSettled: a skip that did not succeed ends the session
skipTrackSettled_FailureStops(outcome, prev) ==
    IF outcome = "ok" THEN prev ELSE IdleState

\* skipTrack after its await: the response is not looked at, and the catch block
\* only logs, so the session state is what it was
skipTrackSettled(outcome, prev) == prev

\* event: the operation, the slice index of a boundary, whether it issued the skip
\* command and with which token, whether a start was rejected, how many
\* timeouts were pending when the operation began, and whether a snapshot without
\* a track came after another one
NoEvent ==
    [op |-> "init", index |-> -1, skipped |-> FALSE, tok |-> NULL, noop |-> FALSE,
     pendingBefore |-> 0, again |-> FALSE]

Ev(op) == [NoEvent EXCEPT !.op = op]

EvPending(op) == [NoEvent EXCEPT !.op = op, !.pendingBefore = Cardinality(timeouts)]

\* mutant of clearTimers: the ref is emptied but the timeouts are not cancelled
clearTimers_KeepsPending(pending, ref) ==
    [timeouts |-> pending, timersRef |-> {}]

\* timersRef.current.forEach(id => window.clearTimeout(id)); timersRef.current = []
clearTimers(pending, ref) ==
    [timeouts |-> pending \ ref, timersRef |-> {}]

\* if (tickRef.current !== null) { window.clearInterval(tickRef.current); tickRef.current = null }
clearTicker(active, ref) ==
    [intervals |-> IF ref # Absent THEN active \ {ref} ELSE active, tickRef |-> Absent]

\* stopSession(): the two clears, then setState(idle)
stopSession ==
    /\ timeouts' = clearTimers(timeouts, timersRef).timeouts
    /\ timersRef' = clearTimers(timeouts, timersRef).timersRef
    /\ intervals' = clearTicker(intervals, tickRef).intervals
    /\ tickRef' = clearTicker(intervals, tickRef).tickRef
    /\ state' = IdleState

sessionUntouched == UNCHANGED <<state, timersRef, tickRef, timeouts, intervals>>

\* mutant of startRejected: the empty timeline is not checked
startRejected_TokenOnly(tok, timeline) == tok = NULL

\* the guard of startSession: if (!tokens?.accessToken || stats.timeline.length === 0) return
startRejected(tok, timeline) == tok = NULL \/ Len(timeline) = 0

\* mutant of scheduleSlice: the delay is the slice's start offset
scheduleSlice_AtStart(slice, index, startTime, planAtStart, tok) ==
    [index |-> index, due |-> startTime + slice.startMs, start |-> startTime,
     plan |-> planAtStart, tok |-> tok]

\* mutant of scheduleSlice: the delay is the slice's own duration
scheduleSlice_ByDuration(slice, index, startTime, planAtStart, tok) ==
    [index |-> index, due |-> startTime + slice.durationMs, start |-> startTime,
     plan |-> planAtStart, tok |-> tok]

\* window.setTimeout(callback, slice.endMs): the registration made for one slice,
\* with what the callback closes over: index, skipTrack's token, and stats.timeline,
\* kept as the plan of that render (stats is computeTimeline of it)
scheduleSlice(slice, index, startTime, planAtStart, tok) ==
    [index |-> index, due |-> startTime + slice.endMs, start |-> startTime,
     plan |-> planAtStart, tok |-> tok]

\* stats.timeline as the callback of a registration sees it
closureTimeline(t) == computeTimeline(t.plan).timeline

\* window.setInterval(() => setNow(Date.now()), CLEANUP_INTERVAL_MS)
tickHandle(startTime) == startTime

StartSession ==
    /\ mounted
    /\ LET timeline == stats.timeline IN
       IF startRejected(tokens, timeline)
       THEN /\ sessionUntouched
            /\ UNCHANGED skipCalls
            /\ event' = [Ev("start") EXCEPT !.noop = TRUE]
       ELSE LET ct == clearTimers(timeouts, timersRef)
                ck == clearTicker(intervals, tickRef)
                startTime == clock
                tick == tickHandle(startTime)
                created == {scheduleSlice(timeline[i], i - 1, startTime, plan, tokens) :
                              i \in 1..Len(timeline)}
            IN /\ state' = [status |-> "running", startedAt |-> startTime,
                            currentSliceIndex |-> 0]
               /\ tickRef' = tick
               /\ intervals' = ck.intervals \cup {tick}
               /\ timeouts' = ct.timeouts \cup created
               /\ timersRef' = ct.timersRef \cup created
               /\ skipCalls' = 0
               /\ event' = EvPending("start")
    /\ UNCHANGED <<clock, tokens, plan, edits, mounted>>

StopSession ==
    /\ mounted
    /\ stopSession
    /\ event' = EvPending("stop")
    /\ UNCHANGED <<clock, tokens, plan, edits, mounted, skipCalls>>

\* mutant of sliceCallbackState: the status stays running after the last slice
sliceCallbackState_StaysRunning(prev, index, timeline) ==
    IF prev.startedAt = Absent
    THEN prev
    ELSE [status |-> "running",
          startedAt |-> prev.startedAt,
          currentSliceIndex |-> Min(index + 1, Len(timeline) - 1)]

\* mutant of sliceCallbackState: the next index is not capped at the last slice
sliceCallbackState_NoCap(prev, index, timeline) ==
    IF prev.startedAt = Absent
    THEN prev
    ELSE [status |-> IF index = Len(timeline) - 1 THEN "completed" ELSE "running",
          startedAt |-> prev.startedAt,
          currentSliceIndex |-> index + 1]

\* the updater passed to setState by the callback of slice `index`
sliceCallbackState(prev, index, timeline) ==
    IF prev.startedAt = Absent
    THEN prev
    ELSE LET nextIndex == Min(index + 1, Len(timeline) - 1)
             isLast == index = Len(timeline) - 1
         IN [status |-> IF isLast THEN "completed" ELSE "running",
             startedAt |-> prev.startedAt,
             currentSliceIndex |-> IF isLast THEN index ELSE nextIndex]

\* browser timer semantics: a timeout runs at or after its due time, and never
\* before a pending timeout that is due earlier
mayRun(t) ==
    /\ t \in timeouts
    /\ t.due <= clock
    /\ \A u \in timeouts : u.due >= t.due

\* mutant of SliceBoundary: skipTrack reads the credential held when it is called
SliceBoundary_CurrentToken(t) ==
    LET timeline == closureTimeline(t)
        slice == timeline[t.index + 1]
        issued == slice.skipAfter /\ tokens # NULL
        isLast == t.index = Len(timeline) - 1
    IN /\ mounted
       /\ mayRun(t)
       /\ timeouts' = timeouts \ {t}
       /\ state' = sliceCallbackState(state, t.index, timeline)
       /\ skipCalls' = IF issued THEN skipCalls + 1 ELSE skipCalls
       /\ intervals' = IF isLast THEN clearTicker(intervals, tickRef).intervals ELSE intervals
       /\ tickRef' = IF isLast THEN clearTicker(intervals, tickRef).tickRef ELSE tickRef
       /\ event' = [Ev("boundary") EXCEPT !.index = t.index, !.skipped = issued,
                                          !.tok = IF issued THEN tokens ELSE NULL]
       /\ UNCHANGED <<clock, tokens, plan, edits, timersRef, mounted>>

\* mutant of SliceBoundary: skipTrack is called after every slice, the last included
SliceBoundary_SkipsAfterLast(t) ==
    LET timeline == closureTimeline(t)
        issued == t.tok # NULL
        isLast == t.index = Len(timeline) - 1
    IN /\ mounted
       /\ mayRun(t)
       /\ timeouts' = timeouts \ {t}
       /\ state' = sliceCallbackState(state, t.index, timeline)
       /\ skipCalls' = IF issued THEN skipCalls + 1 ELSE skipCalls
       /\ intervals' = IF isLast THEN clearTicker(intervals, tickRef).intervals ELSE intervals
       /\ tickRef' = IF isLast THEN clearTicker(intervals, tickRef).tickRef ELSE tickRef
       /\ event' = [Ev("boundary") EXCEPT !.index = t.index, !.skipped = issued,
                                          !.tok = IF issued THEN t.tok ELSE NULL]
       /\ UNCHANGED <<clock, tokens, plan, edits, timersRef, mounted>>

\* the callback of the timeout registered for one slice
SliceBoundary(t) ==
    LET timeline == closureTimeline(t)
        slice == timeline[t.index + 1]
        \* skipTrack(): if (!tokens?.accessToken) return; else the POST is issued
        issued == slice.skipAfter /\ t.tok # NULL
        isLast == t.index = Len(timeline) - 1
    IN /\ mounted
       /\ mayRun(t)
       /\ timeouts' = timeouts \ {t}
       /\ state' = sliceCallbackState(state, t.index, timeline)
       /\ skipCalls' = IF issued THEN skipCalls + 1 ELSE skipCalls
       /\ intervals' = IF isLast THEN clearTicker(intervals, tickRef).intervals ELSE intervals
       /\ tickRef' = IF isLast THEN clearTicker(intervals, tickRef).tickRef ELSE tickRef
       /\ event' = [Ev("boundary") EXCEPT !.index = t.index, !.skipped = issued,
                                          !.tok = IF issued THEN t.tok ELSE NULL]
       /\ UNCHANGED <<clock, tokens, plan, edits, timersRef, mounted>>

\* the interval callback: setNow(Date.now()). The `now` state feeds only the derived
\* display values (elapsedMs, nextSkipInMs) and is not part of the session state.
Tick ==
    /\ mounted
    /\ intervals # {}
    /\ event' = Ev("tick")
    /\ UNCHANGED <<clock, tokens, plan, edits, state, timersRef, tickRef, timeouts,
                   intervals, mounted, skipCalls>>

\* the effect on [stats.timeline.length, stats.totalDurationMs, stopSession]
\* mutant of timelineDepsChanged: the effect depends on the total duration alone
timelineDepsChanged_TotalOnly(old, new) ==
    old.totalDurationMs # new.totalDurationMs

timelineDepsChanged(old, new) ==
    \/ Len(old.timeline) # Len(new.timeline)
    \/ old.totalDurationMs # new.totalDurationMs

\* a plan operation: setPlan, the re-render, then the effects whose deps changed
PlanEdit(op, newPlan) ==
    /\ mounted
    /\ edits < MaxEdits
    /\ edits' = edits + 1
    /\ plan' = newPlan
    /\ IF timelineDepsChanged(computeTimeline(plan), computeTimeline(newPlan))
       THEN stopSession
       ELSE sessionUntouched
    /\ event' = EvPending(op)
    /\ UNCHANGED <<clock, tokens, mounted, skipCalls>>

\* arguments the slice-length selector is called with
SliceInputs == {Num(30), Num(100), NonFinite}

\* the updaters the plan operations pass to setPlan
incremented(prev) ==
    [prev EXCEPT !.totalMinutes = clampMinutes(Num(prev.totalMinutes + 1))]

decremented(prev) ==
    [prev EXCEPT !.totalMinutes = clampMinutes(Num(Max(0, prev.totalMinutes - 1)))]

withThirtySeconds(prev, value) == [prev EXCEPT !.includeThirtySeconds = value]

withSliceLength(prev, seconds) ==
    [prev EXCEPT !.sliceLengthSeconds = sanitizeSliceSeconds(seconds)]

incrementMinutes == PlanEdit("incrementMinutes", incremented(plan))

decrementMinutes == PlanEdit("decrementMinutes", decremented(plan))

setIncludeThirtySeconds ==
    \E value \in BOOLEAN :
        PlanEdit("setIncludeThirtySeconds", withThirtySeconds(plan, value))

selectSliceLength ==
    \E seconds \in SliceInputs :
        PlanEdit("selectSliceLength", withSliceLength(plan, seconds))

\* mutant of afterReset: the slice length of the previous plan is kept
afterReset_KeepsSliceLength(prev) ==
    [DEFAULT_PLAN EXCEPT !.sliceLengthSeconds = prev.sliceLengthSeconds]

\* setPlan(DEFAULT_PLAN): the previous plan is not read
afterReset(prev) == DEFAULT_PLAN

resetPlan == PlanEdit("resetPlan", afterReset(plan))

\* the arguments of clampMinutes and of sanitizeSliceSeconds in one plan operation
Input(minutes, seconds) ==
    [NoInput EXCEPT !.given = TRUE, !.minutes = minutes, !.seconds = seconds]

\* a plan operation of useIntervalPlan from any plan, with its arguments recorded
PlanOp(op, newPlan, input) ==
    /\ mounted
    /\ plan' = newPlan
    /\ planInput' = [input EXCEPT !.prevWasReset = (event.op = "resetPlan")]
    /\ IF timelineDepsChanged(computeTimeline(plan), computeTimeline(newPlan))
       THEN stopSession
       ELSE sessionUntouched
    /\ event' = EvPending(op)
    /\ UNCHANGED <<clock, tokens, edits, mounted, skipCalls>>
    /\ UNCHANGED <<counterOnlyVars, observerOnlyVars, authOnlyVars, historyOnlyVars, skipOnlyVars, normalizeOnlyVars>>

\* numbers the slice-length selector may be called with: below, at and above every
\* multiple of 15 (the odd ones are the ties of the rounding), with and without
\* a fraction, and a value that is not finite
SliceArgs ==
    {Num(15 * k + d) : k \in (-1)..MaxSliceSteps, d \in {-1, 0}}
    \cup {Half(15 * k + d) : k \in (-1)..MaxSliceSteps, d \in {-1, 0}}
    \cup {NonFinite}

PlanIncrementMinutes ==
    /\ plan.totalMinutes < MaxMinutes
    /\ PlanOp("incrementMinutes", incremented(plan),
              [Input(Num(plan.totalMinutes + 1), NonFinite)
                 EXCEPT !.prevMinutes = plan.totalMinutes])

PlanDecrementMinutes ==
    PlanOp("decrementMinutes", decremented(plan),
           [Input(Num(Max(0, plan.totalMinutes - 1)), NonFinite)
              EXCEPT !.prevMinutes = plan.totalMinutes])

PlanSetIncludeThirtySeconds ==
    \E value \in BOOLEAN :
        PlanOp("setIncludeThirtySeconds", withThirtySeconds(plan, value), NoInput)

PlanSelectSliceLength ==
    \E seconds \in SliceArgs :
        PlanOp("selectSliceLength", withSliceLength(plan, seconds),
               Input(NonFinite, seconds))

PlanResetPlan == PlanOp("resetPlan", afterReset(plan), NoInput)

\* mutant of credentialLostWhileRunning: the effect looks for a completed session
credentialLostWhileRunning_Completed(tok, status) == tok = NULL /\ status = "completed"

\* if (!tokens?.accessToken && state.status === 'running') stopSession()
credentialLostWhileRunning(tok, status) == tok = NULL /\ status = "running"

\* the provider replaces the credential (login, refresh, logout, failed refresh);
\* the effect on [tokens?.accessToken, state.status, stopSession] follows
SetTokens ==
    \E next \in Tokens \cup {NULL} :
        /\ mounted
        /\ next # tokens
        /\ tokens' = next
        /\ IF credentialLostWhileRunning(next, state.status)
           THEN stopSession
           ELSE sessionUntouched
        /\ event' = EvPending(IF next = NULL THEN "credentialLost" ELSE "credentialSet")
        /\ UNCHANGED <<clock, plan, edits, mounted, skipCalls>>

\* the cleanup of the teardown effect
Unmount ==
    /\ mounted
    /\ mounted' = FALSE
    /\ timeouts' = clearTimers(timeouts, timersRef).timeouts
    /\ timersRef' = clearTimers(timeouts, timersRef).timersRef
    /\ intervals' = clearTicker(intervals, tickRef).intervals
    /\ tickRef' = clearTicker(intervals, tickRef).tickRef
    /\ event' = EvPending("unmount")
    /\ UNCHANGED <<clock, tokens, plan, edits, state, skipCalls>>

AdvanceClock ==
    /\ clock < (MaxSteps + 1) * ClockStepMs
    /\ clock' = clock + ClockStepMs
    /\ event' = Ev("advance")
    /\ UNCHANGED <<tokens, plan, edits, state, timersRef, tickRef, timeouts, intervals,
                   mounted, skipCalls>>

--------------------------------------------------------------------------
(* Remote playback service and Live Playback Observer, as the counter sees them *)

TrackIds == {"A", "B"}

\* item.duration_ms of each track
TrackDurationMs(id) ==
    IF id = "A" THEN MaxTrackSeconds * 1000 ELSE (MaxTrackSeconds - 1) * 1000

\* the song counter's clock advances in steps of one second
PlayStepMs == 1000

\* nothing is playing (the service answers 204)
NoPlayback == [trackId |-> NULL, progressMs |-> 0, isPlaying |-> FALSE]

\* track: null
NoTrack ==
    [trackId |-> NULL, isPlaying |-> FALSE, progressMs |-> 0, durationMs |-> 0,
     updatedAt |-> 0]

\* nextTrack of fetchCurrentTrack: the payload of a successful poll, stamped Date.now()
nextTrack(p, nowMs) ==
    [trackId |-> p.trackId, isPlaying |-> p.isPlaying, progressMs |-> p.progressMs,
     durationMs |-> TrackDurationMs(p.trackId), updatedAt |-> nowMs]

\* item.artists of a response body: a list of artist names, or something that is
\* not an array (the field is missing)
Artists(names) == [isArray |-> TRUE, names |-> names]
NotAnArray == [isArray |-> FALSE, names |-> <<>>]

\* a string built from pieces is kept as the sequence of its pieces; "" is <<>>
Text(piece) == <<piece>>

RECURSIVE join(_, _)
\* Array.prototype.join: the elements with the separator between neighbours
join(names, separator) ==
    IF names = <<>> THEN <<>>
    ELSE IF Len(names) = 1 THEN Text(names[1])
    ELSE <<names[1], separator>> \o join(Tail(names), separator)

UnknownArtist == Text("Unknown artist")
UnknownAlbum == Text("Unknown album")

\* item.album of a response body: missing, or an object whose name is a string
\* or missing
NoAlbum == [given |-> FALSE, named |-> FALSE, name |-> <<>>]
UnnamedAlbum == [given |-> TRUE, named |-> FALSE, name |-> <<>>]
Album(name) == [given |-> TRUE, named |-> TRUE, name |-> name]

\* Array.isArray(item.artists) ? item.artists.map(artist => artist.name).join(', ')
\*                             : 'Unknown artist'
artistNamesOf(artists) ==
    IF artists.isArray THEN join(artists.names, ", ") ELSE UnknownArtist

\* item.album?.name ?? 'Unknown album'
albumNameOf(album) ==
    IF album.given /\ album.named THEN album.name ELSE UnknownAlbum

\* a field of the body that is a number or missing: value ?? 0
OrZero(value) == IF value = Absent THEN 0 ELSE value

\* nextTrack of fetchCurrentTrack with its display fields, from the body of a
\* success response that has an item
buildTrack(body, nowMs) ==
    [trackId |-> body.item.id,
     artistNames |-> artistNamesOf(body.item.artists),
     albumName |-> albumNameOf(body.item.album),
     isPlaying |-> body.is_playing = "true",
     progressMs |-> OrZero(body.progress_ms),
     durationMs |-> OrZero(body.item.duration_ms),
     updatedAt |-> nowMs]

\* no body, and no snapshot built
NoBody ==
    [item |-> [id |-> NULL, artists |-> NotAnArray, album |-> NoAlbum,
               duration_ms |-> Absent],
     is_playing |-> "undefined", progress_ms |-> Absent]
NoBuilt ==
    [trackId |-> NULL, artistNames |-> <<>>, albumName |-> <<>>, isPlaying |-> FALSE,
     progressMs |-> 0, durationMs |-> 0, updatedAt |-> 0]

\* what one poll leaves in the observer's track: 204 or no item gives null,
\* a failure gives null (and an error), a payload with an item gives the snapshot
polledTrack(outcome, p, nowMs) ==
    IF outcome = "ok" /\ p.trackId # NULL THEN nextTrack(p, nowMs) ELSE NoTrack

--------------------------------------------------------------------------
(* Song Completion Counter: useSongCounterSession *)

\* lastSong is kept as <<trackId, playedMs>>; trackName and artistNames are
\* display copies of the snapshot and are left out
CompletedSong(id, playedMs) == <<id, playedMs>>

\* lastSong: null
NoSong == <<NULL, 0>>

INITIAL_STATE ==
    [status |-> "idle", songsCompleted |-> 0, totalElapsedMs |-> 0, lastSong |-> NoSong,
     error |-> NULL]

\* activeTrackRef.current: null
NoActive ==
    [trackId |-> NULL, durationMs |-> 0, startProgressMs |-> 0, latestProgressMs |-> 0]

NoFirst == [trackId |-> NULL, startProgressMs |-> 0, durationMs |-> 0]

ErrStartPlayback == "Start playback in Spotify before counting songs."
ErrAccessExpired == "Spotify access expired. Reconnect and try again."
ErrSkipFailed == "Could not skip track. Check your Spotify app and try again."

\* the hook's mutable pieces, threaded through the helpers below
ctx == [state |-> counter, active |-> activeTrackRef,
        lastFinalized |-> lastFinalizedTrackIdRef]

\* mutant of getLiveProgress: the drift may be negative
getLiveProgress_SignedDrift(t, nowMs) ==
    LET drift == IF t.isPlaying THEN nowMs - t.updatedAt ELSE 0
        estimated == t.progressMs + drift
    IN Min(t.durationMs, Max(0, estimated))

getLiveProgress(t, nowMs) ==
    LET drift == IF t.isPlaying THEN Max(0, nowMs - t.updatedAt) ELSE 0
        estimated == t.progressMs + drift
    IN Min(t.durationMs, Max(0, estimated))

\* mutant of finalizeActiveTrack: the override argument is ignored
finalizeActiveTrack_IgnoresOverride(c, overrideProgressMs) ==
    IF c.active = NoActive
    THEN c
    ELSE LET snapshot == c.active
             cappedLatest ==
                 Min(snapshot.durationMs,
                     Max(snapshot.startProgressMs, snapshot.latestProgressMs))
             playedMs == Max(0, cappedLatest - snapshot.startProgressMs)
             cleared == [c EXCEPT !.active = NoActive,
                                  !.lastFinalized = snapshot.trackId]
         IN IF playedMs <= 0
            THEN cleared
            ELSE [cleared EXCEPT
                    !.state = [@ EXCEPT
                        !.songsCompleted = @ + 1,
                        !.totalElapsedMs = @ + playedMs,
                        !.lastSong = CompletedSong(snapshot.trackId, playedMs)]]

\* mutant of finalizeActiveTrack: an accumulator without progress is kept
finalizeActiveTrack_KeepsUnplayed(c, overrideProgressMs) ==
    IF c.active = NoActive
    THEN c
    ELSE LET snapshot == c.active
             latest == IF overrideProgressMs # Absent
                       THEN overrideProgressMs
                       ELSE snapshot.latestProgressMs
             cappedLatest ==
                 Min(snapshot.durationMs, Max(snapshot.startProgressMs, latest))
             playedMs == Max(0, cappedLatest - snapshot.startProgressMs)
         IN IF playedMs <= 0
            THEN c
            ELSE [c EXCEPT
                    !.active = NoActive,
                    !.lastFinalized = snapshot.trackId,
                    !.state = [@ EXCEPT
                        !.songsCompleted = @ + 1,
                        !.totalElapsedMs = @ + playedMs,
                        !.lastSong = CompletedSong(snapshot.trackId, playedMs)]]

\* mutant of finalizeActiveTrack: a record is made also when nothing was played
finalizeActiveTrack_RecordsZero(c, overrideProgressMs) ==
    IF c.active = NoActive
    THEN c
    ELSE LET snapshot == c.active
             latest == IF overrideProgressMs # Absent
                       THEN overrideProgressMs
                       ELSE snapshot.latestProgressMs
             cappedLatest ==
                 Min(snapshot.durationMs, Max(snapshot.startProgressMs, latest))
             playedMs == Max(0, cappedLatest - snapshot.startProgressMs)
         IN [c EXCEPT
               !.active = NoActive,
               !.lastFinalized = snapshot.trackId,
               !.state = [@ EXCEPT
                   !.songsCompleted = @ + 1,
                   !.totalElapsedMs = @ + playedMs,
                   !.lastSong = CompletedSong(snapshot.trackId, playedMs)]]

\* finalizeActiveTrack(overrideProgressMs?); Absent stands for no argument
\* mutant of finalizeActiveTrack: the finalized track is not remembered
finalizeActiveTrack_NoMarker(c, overrideProgressMs) ==
    IF c.active = NoActive
    THEN c
    ELSE LET snapshot == c.active
             latest == IF overrideProgressMs # Absent
                       THEN overrideProgressMs
                       ELSE snapshot.latestProgressMs
             cappedLatest ==
                 Min(snapshot.durationMs, Max(snapshot.startProgressMs, latest))
             playedMs == Max(0, cappedLatest - snapshot.startProgressMs)
             cleared == [c EXCEPT !.active = NoActive]
         IN IF playedMs <= 0
            THEN cleared
            ELSE [cleared EXCEPT
                    !.state = [@ EXCEPT
                        !.songsCompleted = @ + 1,
                        !.totalElapsedMs = @ + playedMs,
                        !.lastSong = CompletedSong(snapshot.trackId, playedMs)]]

\* mutant of finalizeActiveTrack: the total grows by the track's whole duration
finalizeActiveTrack_AddsDuration(c, overrideProgressMs) ==
    IF c.active = NoActive
    THEN c
    ELSE LET snapshot == c.active
             latest == IF overrideProgressMs # Absent
                       THEN overrideProgressMs
                       ELSE snapshot.latestProgressMs
             cappedLatest ==
                 Min(snapshot.durationMs, Max(snapshot.startProgressMs, latest))
             playedMs == Max(0, cappedLatest - snapshot.startProgressMs)
             cleared == [c EXCEPT !.active = NoActive,
                                  !.lastFinalized = snapshot.trackId]
         IN IF playedMs <= 0
            THEN cleared
            ELSE [cleared EXCEPT
                    !.state = [@ EXCEPT
                        !.songsCompleted = @ + 1,
                        !.totalElapsedMs = @ + snapshot.durationMs,
                        !.lastSong = CompletedSong(snapshot.trackId, playedMs)]]

finalizeActiveTrack(c, overrideProgressMs) ==
    IF c.active = NoActive
    THEN c
    ELSE LET snapshot == c.active
             latest == IF overrideProgressMs # Absent
                       THEN overrideProgressMs
                       ELSE snapshot.latestProgressMs
             cappedLatest ==
                 Min(snapshot.durationMs, Max(snapshot.startProgressMs, latest))
             playedMs == Max(0, cappedLatest - snapshot.startProgressMs)
             cleared == [c EXCEPT !.active = NoActive,
                                  !.lastFinalized = snapshot.trackId]
         IN IF playedMs <= 0
            THEN cleared
            ELSE [cleared EXCEPT
                    !.state = [@ EXCEPT
                        !.songsCompleted = @ + 1,
                        !.totalElapsedMs = @ + playedMs,
                        !.lastSong = CompletedSong(snapshot.trackId, playedMs)]]

\* mutant of beginTracking: the new track is counted from its beginning
beginTracking_FromZero(c, currentTrack, nowMs) ==
    LET liveProgress == getLiveProgress(currentTrack, nowMs)
    IN [c EXCEPT
          !.active = [trackId |-> currentTrack.trackId,
                      durationMs |-> currentTrack.durationMs,
                      startProgressMs |-> 0,
                      latestProgressMs |-> liveProgress],
          !.lastFinalized = NULL]

beginTracking(c, currentTrack, nowMs) ==
    LET liveProgress == getLiveProgress(currentTrack, nowMs)
    IN [c EXCEPT
          !.active = [trackId |-> currentTrack.trackId,
                      durationMs |-> currentTrack.durationMs,
                      startProgressMs |-> liveProgress,
                      latestProgressMs |-> liveProgress],
          !.lastFinalized = NULL]

\* mutant of snapshotEffect: a snapshot without a track leaves the accumulator
snapshotEffect_NoTrackIgnored(c, t, nowMs) ==
    IF c.state.status # "running" THEN c
    ELSE IF t = NoTrack THEN c
    ELSE IF c.lastFinalized = t.trackId /\ c.active = NoActive THEN c
    ELSE IF c.active = NoActive THEN beginTracking(c, t, nowMs)
    ELSE IF c.active.trackId = t.trackId
    THEN [c EXCEPT !.active.latestProgressMs = getLiveProgress(t, nowMs),
                   !.active.durationMs = t.durationMs]
    ELSE beginTracking(finalizeActiveTrack(c, Absent), t, nowMs)

\* mutant of snapshotEffect: a snapshot of the same track begins tracking anew
snapshotEffect_RestartsSameTrack(c, t, nowMs) ==
    IF c.state.status # "running" THEN c
    ELSE IF t = NoTrack
    THEN [finalizeActiveTrack(c, Absent) EXCEPT !.active = NoActive,
                                                 !.lastFinalized = NULL]
    ELSE IF c.lastFinalized = t.trackId /\ c.active = NoActive THEN c
    ELSE IF c.active = NoActive THEN beginTracking(c, t, nowMs)
    ELSE IF c.active.trackId = t.trackId
    THEN beginTracking(c, t, nowMs)
    ELSE beginTracking(finalizeActiveTrack(c, Absent), t, nowMs)

\* the effect on [track.trackId, track.progressMs, track.updatedAt, state.status]
snapshotEffect(c, t, nowMs) ==
    IF c.state.status # "running" THEN c
    ELSE IF t = NoTrack
    THEN [finalizeActiveTrack(c, Absent) EXCEPT !.active = NoActive,
                                                 !.lastFinalized = NULL]
    ELSE IF c.lastFinalized = t.trackId /\ c.active = NoActive THEN c
    ELSE IF c.active = NoActive THEN beginTracking(c, t, nowMs)
    ELSE IF c.active.trackId = t.trackId
    THEN [c EXCEPT !.active.latestProgressMs = getLiveProgress(t, nowMs),
                   !.active.durationMs = t.durationMs]
    ELSE beginTracking(finalizeActiveTrack(c, Absent), t, nowMs)

\* mutant of startCounter: a paused track is accepted
startCounter_AcceptsPaused(c, t, tok, nowMs) ==
    IF t = NoTrack
    THEN [c EXCEPT !.state.error = ErrStartPlayback]
    ELSE IF tok = NULL
    THEN [c EXCEPT !.state.error = ErrAccessExpired]
    ELSE beginTracking(
            [c EXCEPT !.state = [status |-> "running", songsCompleted |-> 0,
                                 totalElapsedMs |-> 0, lastSong |-> NoSong,
                                 error |-> NULL]],
            t, nowMs)

\* start(), up to the effect that follows the status change
startCounter(c, t, tok, nowMs) ==
    IF t = NoTrack \/ ~t.isPlaying
    THEN [c EXCEPT !.state.error = ErrStartPlayback]
    ELSE IF tok = NULL
    THEN [c EXCEPT !.state.error = ErrAccessExpired]
    ELSE beginTracking(
            [c EXCEPT !.state = [status |-> "running", songsCompleted |-> 0,
                                 totalElapsedMs |-> 0, lastSong |-> NoSong,
                                 error |-> NULL]],
            t, nowMs)

\* mutant of stopCounter: only the status is set
stopCounter_OnlyStatus(c) == [c EXCEPT !.state.status = "idle"]

\* stop(), for a counter that is not idle
stopCounter(c) ==
    [finalizeActiveTrack(c, Absent) EXCEPT !.active = NoActive,
                                           !.lastFinalized = NULL,
                                           !.state.status = "idle"]

\* skip(), up to the request: finalize with the live progress of the snapshot
skipFinalize(c, t, nowMs) ==
    IF t # NoTrack
    THEN finalizeActiveTrack(c, getLiveProgress(t, nowMs))
    ELSE finalizeActiveTrack(c, Absent)

setCtx(c) ==
    /\ counter' = c.state
    /\ activeTrackRef' = c.active
    /\ lastFinalizedTrackIdRef' = c.lastFinalized

CounterStart ==
    LET started == startCounter(ctx, track, tokens, clock)
        accepted == started.state.status = "running" /\ started.state.error = NULL
                    /\ track # NoTrack /\ track.isPlaying /\ tokens # NULL
    IN \* the snapshot effect runs again only when state.status has changed
       /\ IF started.state.status # counter.status
          THEN setCtx(snapshotEffect(started, track, clock))
          ELSE setCtx(started)
       /\ firstSong' =
            IF /\ accepted
               /\ player.trackId = track.trackId /\ player.isPlaying
               /\ player.progressMs = getLiveProgress(track, clock)
            THEN [trackId |-> track.trackId,
                  startProgressMs |-> started.active.startProgressMs,
                  durationMs |-> track.durationMs]
            ELSE NoFirst
       /\ event' = [Ev("counterStart") EXCEPT !.noop = ~accepted]
       /\ UNCHANGED <<clock, tokens, player, track, isBusy, skipRequests>>
       /\ UNCHANGED sessionOnlyVars

CounterStop ==
    /\ IF counter.status = "idle"
       THEN UNCHANGED <<counter, activeTrackRef, lastFinalizedTrackIdRef, isBusy>>
       ELSE /\ setCtx(stopCounter(ctx))
            /\ isBusy' = FALSE
    /\ firstSong' = NoFirst
    /\ event' = [Ev("counterStop") EXCEPT !.noop = (counter.status = "idle")]
    /\ UNCHANGED <<clock, tokens, player, track, skipRequests>>
    /\ UNCHANGED sessionOnlyVars

\* skip() up to its await: the finalization, then the request unless no token
CounterSkip ==
    /\ skipRequests = 0
    /\ IF counter.status # "running"
       THEN UNCHANGED <<counter, activeTrackRef, lastFinalizedTrackIdRef, isBusy,
                        skipRequests>>
       ELSE LET finalized == skipFinalize(ctx, track, clock)
            IN IF tokens = NULL
               THEN setCtx(finalized) /\ UNCHANGED <<isBusy, skipRequests>>
               ELSE /\ setCtx([finalized EXCEPT !.state.error = NULL])
                    /\ isBusy' = TRUE
                    /\ skipRequests' = skipRequests + 1
    /\ firstSong' = NoFirst
    /\ event' = [Ev("counterSkip") EXCEPT !.noop = (counter.status # "running")]
    /\ UNCHANGED <<clock, tokens, player, track>>
    /\ UNCHANGED sessionOnlyVars

\* the track that follows in the remote player's queue
playerNext(p, id) == [p EXCEPT !.trackId = id, !.progressMs = 0]

\* skip() after its await: fetch resolved (whatever the HTTP status) or rejected
CounterSkipDone ==
    \E outcome \in {"ok", "httpError", "networkError"} :
        /\ skipRequests > 0
        /\ skipRequests' = skipRequests - 1
        /\ isBusy' = FALSE
        /\ counter' = IF outcome = "networkError"
                      THEN [counter EXCEPT !.error = ErrSkipFailed]
                      ELSE counter
        /\ IF outcome = "ok" /\ player.trackId # NULL
           THEN \E id \in TrackIds : player' = playerNext(player, id)
           ELSE player' = player
        /\ firstSong' = NoFirst
        /\ event' = [Ev("counterSkipDone") EXCEPT !.noop = (outcome # "ok")]
        /\ UNCHANGED <<clock, tokens, track, activeTrackRef, lastFinalizedTrackIdRef>>
        /\ UNCHANGED sessionOnlyVars

\* the deps [track?.trackId, track?.progressMs, track?.updatedAt] of the effect
snapshotDepsChanged(old, new) ==
    \/ old.trackId # new.trackId
    \/ old.progressMs # new.progressMs
    \/ old.updatedAt # new.updatedAt

\* one poll of the observer completes, and the counter's effect sees the new track
Poll ==
    \E outcome \in {"ok", "fail"} :
        LET t == polledTrack(outcome, player, clock)
        IN /\ tokens # NULL
           /\ track' = t
           /\ IF snapshotDepsChanged(track, t)
              THEN setCtx(snapshotEffect(ctx, t, clock))
              ELSE setCtx(ctx)
           /\ firstSong' = IF track = NoTrack \/ track.trackId = firstSong.trackId
                           THEN IF t = NoTrack THEN NoFirst ELSE firstSong
                           ELSE NoFirst
           /\ event' = [Ev("snapshot") EXCEPT !.noop = (t = NoTrack),
                                               !.again = (t = NoTrack /\ track = NoTrack)]
           /\ UNCHANGED <<clock, tokens, player, isBusy, skipRequests>>
           /\ UNCHANGED sessionOnlyVars

\* the credential is lost: the counter's effect calls stop(), the observer resets
CounterCredentialLost ==
    /\ tokens # NULL
    /\ tokens' = NULL
    /\ track' = NoTrack
    /\ IF counter.status = "running"
       THEN setCtx(stopCounter(ctx)) /\ isBusy' = FALSE
       ELSE UNCHANGED <<counter, activeTrackRef, lastFinalizedTrackIdRef, isBusy>>
    /\ firstSong' = NoFirst
    /\ event' = Ev("credentialLost")
    /\ UNCHANGED <<clock, player, skipRequests>>
    /\ UNCHANGED sessionOnlyVars

CounterCredentialSet ==
    /\ tokens = NULL
    /\ tokens' = "tokA"
    /\ event' = Ev("credentialSet")
    /\ UNCHANGED <<clock>>
    /\ UNCHANGED counterOnlyVars
    /\ UNCHANGED sessionOnlyVars

\* the user acts on the remote player: pause or resume, seek backwards, next or
\* previous track, stop playback, or start it when nothing plays
PlayerAction ==
    /\ \E next \in
          {[player EXCEPT !.isPlaying = ~@]}
          \cup {[player EXCEPT !.progressMs = q] :
                  q \in {k * PlayStepMs : k \in 0..(MaxTrackSeconds - 1)}}
          \cup {[trackId |-> id, progressMs |-> 0, isPlaying |-> TRUE] : id \in TrackIds}
          \cup {NoPlayback} :
        /\ next # player
        /\ player.trackId = NULL => next.isPlaying
        /\ next.trackId = player.trackId => next.progressMs <= player.progressMs
        /\ player' = next
    /\ firstSong' = NoFirst
    /\ event' = Ev("playerAction")
    /\ UNCHANGED <<clock, tokens, track, counter, activeTrackRef,
                   lastFinalizedTrackIdRef, isBusy, skipRequests>>
    /\ UNCHANGED sessionOnlyVars

\* one second passes; a playing track that reaches its end is followed by the next
AdvanceTime ==
    /\ clock < (MaxCounterSteps + 1) * PlayStepMs
    /\ clock' = clock + PlayStepMs
    /\ IF player.trackId # NULL /\ player.isPlaying
       THEN IF player.progressMs + PlayStepMs < TrackDurationMs(player.trackId)
            THEN /\ player' = [player EXCEPT !.progressMs = @ + PlayStepMs]
                 /\ firstSong' = firstSong
            ELSE \E id \in TrackIds :
                    /\ player' = playerNext(player, id)
                    /\ firstSong' = IF id = player.trackId THEN NoFirst ELSE firstSong
       ELSE UNCHANGED <<player, firstSong>>
    /\ event' = Ev("advance")
    /\ UNCHANGED <<tokens, track, counter, activeTrackRef, lastFinalizedTrackIdRef,
                   isBusy, skipRequests>>
    /\ UNCHANGED sessionOnlyVars

--------------------------------------------------------------------------
(* Live Playback Observer: useCurrentlyPlaying *)

\* the observer's state as one HookState value
hookState ==
    [track |-> track, error |-> trackError, isLoading |-> isLoading,
     initialized |-> initialized]

HOOK_INITIAL_STATE ==
    [track |-> NoTrack, error |-> NULL, isLoading |-> FALSE, initialized |-> FALSE]

setHook(h) ==
    /\ track' = h.track
    /\ trackError' = h.error
    /\ isLoading' = h.isLoading
    /\ initialized' = h.initialized

DEFAULT_POLL_INTERVAL == 5000

\* values of the pollMs argument
PollIntervals == {DEFAULT_POLL_INTERVAL, 2 * DEFAULT_POLL_INTERVAL}

\* how a request ends: 204, a body without item, a body with item, a non-success
\* status whose body carries a message or does not, or a rejected fetch
FetchOutcomes == {"noContent", "noItem", "ok", "httpErrorMessage", "httpError",
                  "networkError"}

ErrLoadTrack == "Failed to load current Spotify track."
ErrApiMessage == "The access token expired"
ErrFetchRejected == "Failed to fetch"

\* the message of the Error caught by fetchCurrentTrack
fetchErrorMessage(outcome) ==
    IF outcome = "httpErrorMessage" THEN ErrApiMessage
    ELSE IF outcome = "httpError" THEN ErrLoadTrack
    ELSE ErrFetchRejected

\* a request in flight: its number, the activation that issued it, and what the
\* player was doing when the service received it
Fetch(seq, act, p) == [seq |-> seq, act |-> act, payload |-> p]

\* a response: the request, how it ended, the item it carried if it carried one,
\* and whether the observer applied it
Settled(f, outcome, applied) ==
    [seq |-> f.seq, act |-> f.act,
     payload |-> IF outcome = "ok" THEN f.payload ELSE NoPlayback,
     outcome |-> outcome, applied |-> applied]

NoFetch == Settled(Fetch(0, 0, NoPlayback), NULL, FALSE)

\* mutant of fetchStarted: the flag is raised whenever there is neither a track nor
\* an error
fetchStarted_WhenEmpty(prev) ==
    IF prev.track = NoTrack /\ prev.error = NULL /\ ~prev.isLoading
    THEN [prev EXCEPT !.isLoading = TRUE]
    ELSE prev

\* setState(prev => (prev.initialized ? prev : { ...prev, isLoading: true }))
fetchStarted(prev) ==
    IF prev.initialized THEN prev ELSE [prev EXCEPT !.isLoading = TRUE]

\* the updater for a 204 response and for a body without item
applyNoItem(prev) ==
    IF ~prev.initialized
    THEN [track |-> NoTrack, error |-> NULL, isLoading |-> FALSE, initialized |-> TRUE]
    ELSE IF prev.track = NoTrack /\ prev.error = NULL /\ ~prev.isLoading
    THEN prev
    ELSE [prev EXCEPT !.track = NoTrack, !.error = NULL, !.isLoading = FALSE,
                      !.initialized = TRUE]

\* the updater for a body with an item; both branches hold the new snapshot
applyTrack(prev, next) ==
    IF prev.track # NoTrack /\ prev.track.trackId = next.trackId
       /\ prev.track.isPlaying = next.isPlaying
       /\ prev.track.durationMs = next.durationMs
    THEN [prev EXCEPT !.track = next, !.isLoading = FALSE, !.error = NULL,
                      !.initialized = TRUE]
    ELSE [track |-> next, error |-> NULL, isLoading |-> FALSE, initialized |-> TRUE]

\* mutant of applyError: the last track is kept next to the message
applyError_KeepsTrack(prev, message) ==
    [prev EXCEPT !.error = message, !.isLoading = FALSE, !.initialized = TRUE]

\* the updater of the catch block
applyError(prev, message) ==
    IF prev.error = message /\ prev.track = NoTrack /\ prev.initialized
    THEN prev
    ELSE [track |-> NoTrack, error |-> message, isLoading |-> FALSE,
          initialized |-> TRUE]

\* mutant of fetchResult: the response of a request is dropped once a later
\* request has been issued
fetchResult_NewestOnly(prev, f, outcome, nowMs) ==
    IF f.seq < fetchCount THEN prev
    ELSE IF outcome \in {"noContent", "noItem"} THEN applyNoItem(prev)
    ELSE IF outcome = "ok" THEN applyTrack(prev, nextTrack(f.payload, nowMs))
    ELSE applyError(prev, fetchErrorMessage(outcome))

\* what the response of request f does to the observer state on arrival
fetchResult(prev, f, outcome, nowMs) ==
    IF outcome \in {"noContent", "noItem"} THEN applyNoItem(prev)
    ELSE IF outcome = "ok" THEN applyTrack(prev, nextTrack(f.payload, nowMs))
    ELSE applyError(prev, fetchErrorMessage(outcome))

\* the ways request f can end: a body with an item needs a track in the player
outcomesOf(f) ==
    IF f.payload.trackId = NULL THEN FetchOutcomes \ {"ok"} ELSE FetchOutcomes

\* mutant of stillActive: responses are applied whatever the activation
stillActive_Always(act, current) == TRUE

\* if (isActive): the flag of the activation that issued the request
stillActive(act, current) == act = current

\* the request fetchCurrentTrack issues now
newFetch(act) == Fetch(fetchCount + 1, act, player)

\* mutant of observerEffect: the interval is started but no request is issued at once
observerEffect_IntervalOnly(tok) ==
    IF tok = NULL
    THEN /\ setHook(HOOK_INITIAL_STATE)
         /\ isActive' = Absent
         /\ pollRef' = Absent
         /\ UNCHANGED <<activations, fetches, fetchCount>>
    ELSE /\ activations' = activations + 1
         /\ isActive' = activations + 1
         /\ pollRef' = activations + 1
         /\ setHook(hookState)
         /\ UNCHANGED <<fetches, fetchCount>>

\* the effect on [tokens?.accessToken, pollMs]: the cleanup of the previous run,
\* then the body; with a credential it issues the first request and starts the
\* interval
observerEffect(tok) ==
    IF tok = NULL
    THEN /\ setHook(HOOK_INITIAL_STATE)
         /\ isActive' = Absent
         /\ pollRef' = Absent
         /\ UNCHANGED <<activations, fetches, fetchCount>>
    ELSE /\ activations' = activations + 1
         /\ isActive' = activations + 1
         /\ pollRef' = activations + 1
         /\ setHook(fetchStarted(hookState))
         /\ fetchCount' = fetchCount + 1
         /\ fetches' = fetches \cup {newFetch(activations + 1)}

\* what the observer never touches
observerFrame ==
    UNCHANGED <<plan, edits, state, timersRef, tickRef, timeouts, intervals, skipCalls,
                counter, activeTrackRef, lastFinalizedTrackIdRef, isBusy, skipRequests,
                firstSong, authOnlyVars, planOnlyVars, historyOnlyVars, skipOnlyVars, normalizeOnlyVars>>

\* the bounds leave room for one more activation and its first request
mayActivate(tok) ==
    tok # NULL => (activations < MaxActivations + 1 /\ fetchCount < MaxFetches)

\* the provider replaces or clears the credential
ObserverSetTokens ==
    \E next \in Tokens \cup {NULL} :
        /\ mounted
        /\ next # tokens
        /\ mayActivate(next)
        /\ tokens' = next
        /\ observerEffect(next)
        /\ event' = Ev(IF next = NULL THEN "credentialLost" ELSE "credentialSet")
        /\ settled' = NoFetch
        /\ UNCHANGED <<clock, player, mounted, pollMs>>
        /\ observerFrame

\* the caller passes another poll interval
ObserverSetPollMs ==
    \E next \in PollIntervals :
        /\ mounted
        /\ next # pollMs
        /\ mayActivate(tokens)
        /\ pollMs' = next
        /\ observerEffect(tokens)
        /\ event' = Ev("pollMsChanged")
        /\ settled' = NoFetch
        /\ UNCHANGED <<clock, tokens, player, mounted>>
        /\ observerFrame

\* the interval fires: fetchCurrentTrack()
ObserverPoll ==
    /\ mounted
    /\ pollRef # Absent
    /\ fetchCount < MaxFetches
    /\ setHook(fetchStarted(hookState))
    /\ fetchCount' = fetchCount + 1
    /\ fetches' = fetches \cup {newFetch(pollRef)}
    /\ settled' = NoFetch
    /\ event' = Ev("fetchStarted")
    /\ UNCHANGED <<clock, tokens, player, mounted, isActive, activations, pollRef,
                   pollMs>>
    /\ observerFrame

\* the response of one request arrives
ObserverFetchSettled ==
    \E f \in fetches : \E outcome \in outcomesOf(f) :
        LET applied == mounted /\ stillActive(f.act, isActive)
        IN /\ fetches' = fetches \ {f}
           /\ IF applied
              THEN setHook(fetchResult(hookState, f, outcome, clock))
              ELSE UNCHANGED <<track, trackError, isLoading, initialized>>
           /\ settled' = Settled(f, outcome, applied)
           /\ event' = [Ev("fetchSettled") EXCEPT !.noop = ~applied]
           /\ UNCHANGED <<clock, tokens, player, mounted, isActive, activations,
                          pollRef, pollMs, fetchCount>>
           /\ observerFrame

\* the cleanup of the effect when the component is torn down
ObserverUnmount ==
    /\ mounted
    /\ mounted' = FALSE
    /\ isActive' = Absent
    /\ pollRef' = Absent
    /\ event' = Ev("unmount")
    /\ settled' = NoFetch
    /\ UNCHANGED <<clock, tokens, player, track, trackError, isLoading, initialized,
                   activations, pollMs, fetches, fetchCount>>
    /\ observerFrame

--------------------------------------------------------------------------
(* Credential provider: AuthContext.tsx *)

REFRESH_BUFFER_MS == 60 * 1000
MIN_REFRESH_DELAY_MS == 5 * 1000

\* an AuthTokens value, as far as the provider looks at it
Cred(tok, expiry, refreshable) ==
    [accessToken |-> tok, expiresAt |-> expiry, hasRefreshToken |-> refreshable]

\* tokens: null
NoCred == Cred(NULL, Absent, FALSE)

\* refreshTimeoutRef.current: null, or a timer that has fired
NoTimer == [due |-> Absent, source |-> NoCred]

\* expires_in of the credentials the token service issues, in milliseconds
Lifetimes == {30 * 1000, 90 * 1000}

\* the provider's mutable pieces, threaded through the helpers below
authCtx ==
    [tokens |-> Cred(tokens, expiresAt, hasRefreshToken), timer |-> refreshTimeoutRef,
     refreshing |-> refreshingRef, requests |-> refreshRequests,
     joined |-> joinedCalls, count |-> refreshCount]

setAuth(a) ==
    /\ tokens' = a.tokens.accessToken
    /\ expiresAt' = a.tokens.expiresAt
    /\ hasRefreshToken' = a.tokens.hasRefreshToken
    /\ refreshTimeoutRef' = a.timer
    /\ refreshingRef' = a.refreshing
    /\ refreshRequests' = a.requests
    /\ joinedCalls' = a.joined
    /\ refreshCount' = a.count

applyTokens(a, next) == [a EXCEPT !.tokens = next]

\* refreshAccessToken(current) up to its await: without a refresh token it clears
\* the credential and throws, otherwise it issues the request
refreshAccessToken(a, current, viaRunRefresh) ==
    IF ~current.hasRefreshToken
    THEN applyTokens(a, NoCred)
    ELSE [a EXCEPT !.count = @ + 1,
                   !.requests = @ \cup {[id |-> a.count + 1, source |-> current,
                                         viaRunRefresh |-> viaRunRefresh]}]

\* runRefresh(source) up to its await; when refreshAccessToken throws at once the
\* catch and finally blocks run before anything else can
runRefresh(a, source) ==
    IF a.refreshing # Absent
    THEN [a EXCEPT !.joined = @ + 1]
    ELSE LET called == refreshAccessToken(a, source, TRUE)
         IN IF called.count = a.count
            THEN applyTokens(called, NoCred)
            ELSE [called EXCEPT !.refreshing = called.count]

scheduleRefresh(a, current, nowMs) ==
    LET cleared == [a EXCEPT !.timer = NoTimer]
        msUntilExpiry == current.expiresAt - nowMs
        delay == Max(msUntilExpiry - REFRESH_BUFFER_MS, MIN_REFRESH_DELAY_MS)
    IN IF ~current.hasRefreshToken THEN cleared
       ELSE IF msUntilExpiry <= REFRESH_BUFFER_MS THEN runRefresh(cleared, current)
       ELSE [cleared EXCEPT !.timer = [due |-> nowMs + delay, source |-> current]]

\* the effect on [tokens, scheduleRefresh]: the cleanup of the previous run, then
\* the body
tokensEffect(a, nowMs) ==
    IF a.tokens = NoCred
    THEN [a EXCEPT !.timer = NoTimer]
    ELSE scheduleRefresh(a, a.tokens, nowMs)

\* the state after applyTokens(next) and the render it causes: a new object, or a
\* change from a credential to null, runs the effect
rendered(before, after, nowMs) ==
    IF after.tokens = NoCred /\ before.tokens = NoCred
    THEN after
    ELSE tokensEffect(after, nowMs)

\* what the mount effect finds in storage and does with it
initialLoad(stored, nowMs) ==
    LET empty == [tokens |-> NoCred, timer |-> NoTimer, refreshing |-> Absent,
                  requests |-> {}, joined |-> 0, count |-> 0]
    IN IF stored = NoCred THEN empty
       ELSE IF stored.expiresAt > nowMs + REFRESH_BUFFER_MS
       THEN tokensEffect(applyTokens(empty, stored), nowMs)
       ELSE IF stored.hasRefreshToken
       THEN refreshAccessToken(empty, stored, FALSE)
       ELSE empty

\* the provider's next state, within the bounds
setAuthBounded(a) ==
    /\ a.count <= MaxRefreshes
    /\ a.joined <= MaxRefreshes
    /\ setAuth(a)

\* what the provider never touches
authFrame ==
    /\ UNCHANGED <<plan, edits, state, timersRef, tickRef, timeouts, intervals, mounted,
                   skipCalls>>
    /\ UNCHANGED counterOnlyVars
    /\ UNCHANGED observerOnlyVars
    /\ UNCHANGED planOnlyVars
    /\ UNCHANGED <<historyOnlyVars, skipOnlyVars, normalizeOnlyVars>>

\* credentials a login can hand to setTokens
Logins(nowMs) ==
    {Cred(tok, nowMs + life, refreshable) :
        tok \in Tokens, life \in Lifetimes, refreshable \in BOOLEAN}

\* setTokens(next) after a login, or clearTokens()
AuthSetTokens ==
    \E next \in Logins(clock) \cup {NoCred} :
        /\ setAuthBounded(rendered(authCtx, applyTokens(authCtx, next), clock))
        /\ isReady' = TRUE
        /\ event' = Ev(IF next = NoCred THEN "clearTokens" ELSE "setTokens")
        /\ UNCHANGED clock
        /\ authFrame

\* refreshTokens()
AuthRefreshTokens ==
    /\ IF tokens = NULL
       THEN setAuth(authCtx)
       ELSE LET ran == runRefresh(authCtx, authCtx.tokens)
            IN IF ran.tokens = authCtx.tokens
               THEN setAuthBounded(ran)
               ELSE setAuthBounded(rendered(authCtx, ran, clock))
    /\ event' = [Ev("refreshTokens") EXCEPT !.noop = (tokens = NULL)]
    /\ UNCHANGED <<clock, isReady>>
    /\ authFrame

\* the proactive timer fires: runRefresh(current)
AuthRefreshTimer ==
    /\ refreshTimeoutRef # NoTimer
    /\ refreshTimeoutRef.due <= clock
    /\ setAuthBounded(runRefresh([authCtx EXCEPT !.timer = NoTimer],
                                 refreshTimeoutRef.source))
    /\ event' = Ev("refreshTimer")
    /\ UNCHANGED <<clock, isReady>>
    /\ authFrame

\* the response of a refresh request arrives: refreshAccessToken applies the new
\* credential or clears it, every runRefresh awaiting the promise resumes and
\* clears refreshingRef, and the provider renders
AuthRefreshSettled ==
    \E r \in refreshRequests :
      \E next \in {Cred(tok, clock + life, TRUE) : tok \in Tokens, life \in Lifetimes}
                  \cup {NoCred} :
        LET applied == applyTokens([authCtx EXCEPT !.requests = @ \ {r}], next)
            resumed == IF r.viaRunRefresh
                       THEN [applied EXCEPT !.refreshing = Absent, !.joined = 0]
                       ELSE applied
        IN /\ setAuthBounded(rendered(authCtx, resumed, clock))
           /\ isReady' = IF r.viaRunRefresh THEN isReady ELSE TRUE
           /\ event' = [Ev("refreshSettled") EXCEPT !.noop = (next = NoCred)]
           /\ UNCHANGED clock
           /\ authFrame

--------------------------------------------------------------------------
(* Initial states and specifications *)

\* localStorage content read by loadPlan: nothing stored; an object with a numeric
\* sliceLengthSeconds; an object of the older format, with a slices array whose
\* first element has integer minutes and seconds; or anything else
NothingStored == [kind |-> "none"]
StoredPlan(m, thirty, secs) ==
    [kind |-> "plan", totalMinutes |-> m, includeThirtySeconds |-> thirty,
     sliceLengthSeconds |-> secs]
StoredLegacy(m, totalSeconds, sliceMinutes, sliceSeconds) ==
    [kind |-> "legacy", totalMinutes |-> m, totalSeconds |-> totalSeconds,
     sliceMinutes |-> sliceMinutes, sliceSeconds |-> sliceSeconds]
StoredInvalid == [kind |-> "invalid"]

\* the result null of migrateLegacyPlan
NoPlan == [totalMinutes |-> -1, includeThirtySeconds |-> FALSE, sliceLengthSeconds |-> 0]

\* value ?? fallback
OrElse(value, fallback) == IF value = Nullish THEN fallback ELSE value

migrateLegacyPlan(raw) ==
    IF raw.kind = "plan"
    THEN [totalMinutes |->
              clampMinutes(OrElse(raw.totalMinutes, Num(DEFAULT_PLAN.totalMinutes))),
          includeThirtySeconds |-> raw.includeThirtySeconds,
          sliceLengthSeconds |-> sanitizeSliceSeconds(raw.sliceLengthSeconds)]
    ELSE IF raw.kind = "legacy"
    THEN [totalMinutes |-> clampMinutes(OrElse(raw.totalMinutes, Num(10))),
          includeThirtySeconds |-> clampMinutes(OrElse(raw.totalSeconds, Num(0))) >= 30,
          sliceLengthSeconds |->
              sanitizeSliceSeconds(Num(raw.sliceMinutes * 60 + raw.sliceSeconds))]
    ELSE NoPlan

loadPlan(stored) ==
    IF stored.kind = "none"
    THEN DEFAULT_PLAN
    ELSE LET migrated == migrateLegacyPlan(stored)
         IN IF migrated # NoPlan THEN migrated ELSE DEFAULT_PLAN

\* what localStorage may hold when the application starts
StoredInputs ==
    {NothingStored}
    \cup {StoredPlan(Num(m), thirty, Num(secs)) :
            m \in {1, 2}, thirty \in BOOLEAN, secs \in {60}}

\* the driver after its first render, the plan loaded from one of the stored inputs
SessionInitFrom(inputs) ==
    /\ clock = ClockStepMs
    /\ tokens \in Tokens \cup {NULL}
    /\ plan \in {loadPlan(stored) : stored \in inputs}
    /\ edits = 0
    /\ state = IdleState
    /\ timersRef = {}
    /\ tickRef = Absent
    /\ timeouts = {}
    /\ intervals = {}
    /\ mounted = TRUE
    /\ skipCalls = 0
    /\ event = NoEvent

SessionInit == SessionInitFrom(StoredInputs)

CounterInit ==
    /\ player \in {NoPlayback}
                 \cup {[trackId |-> id, progressMs |-> q, isPlaying |-> TRUE] :
                         id \in TrackIds, q \in {0, PlayStepMs}}
    /\ track = NoTrack
    /\ counter = INITIAL_STATE
    /\ activeTrackRef = NoActive
    /\ lastFinalizedTrackIdRef = NULL
    /\ isBusy = FALSE
    /\ skipRequests = 0
    /\ firstSong = NoFirst
    /\ finalizedSince = NULL
    /\ finalizedAcc = NoActive
    /\ skippedTrack = NULL
    /\ liveResult = Absent
    /\ sessionSkips = {}
    /\ failedSkip = NoSkip
    /\ responseBody = NoBody
    /\ builtTrack = NoBuilt

\* the provider's bookkeeping where the provider is not modelled, and no plan input
AuthIdle ==
    /\ planInput = NoInput
    /\ expiresAt = Absent
    /\ hasRefreshToken = FALSE
    /\ isReady = TRUE
    /\ refreshTimeoutRef = NoTimer
    /\ refreshingRef = Absent
    /\ refreshRequests = {}
    /\ joinedCalls = 0
    /\ refreshCount = 0

\* the observer before its effect has run
ObserverIdle ==
    /\ trackError = NULL
    /\ isLoading = FALSE
    /\ initialized = FALSE
    /\ isActive = Absent
    /\ activations = 0
    /\ pollRef = Absent
    /\ pollMs = DEFAULT_POLL_INTERVAL
    /\ fetches = {}
    /\ fetchCount = 0
    /\ settled = NoFetch

\* the other components where only the session driver is followed
DriverAlone ==
    /\ ObserverIdle
    /\ AuthIdle
    /\ player = NoPlayback
    /\ track = NoTrack
    /\ counter = INITIAL_STATE
    /\ activeTrackRef = NoActive
    /\ lastFinalizedTrackIdRef = NULL
    /\ isBusy = FALSE
    /\ skipRequests = 0
    /\ firstSong = NoFirst
    /\ finalizedSince = NULL
    /\ finalizedAcc = NoActive
    /\ skippedTrack = NULL
    /\ liveResult = Absent
    /\ sessionSkips = {}
    /\ failedSkip = NoSkip
    /\ responseBody = NoBody
    /\ builtTrack = NoBuilt

\* the promise of one skipTrack call settles
SkipSettled ==
    \E r \in sessionSkips, outcome \in SkipOutcomes :
        /\ sessionSkips' = sessionSkips \ {r}
        /\ failedSkip' = IF outcome = "ok" THEN failedSkip ELSE r
        /\ state' = skipTrackSettled(outcome, state)
        /\ event' = [Ev("skipSettled") EXCEPT !.index = r.index, !.noop = (outcome = "ok")]
        /\ UNCHANGED <<clock, tokens, plan, edits, timersRef, tickRef, timeouts,
                       intervals, mounted, skipCalls>>

\* the request a slice callback leaves in flight when it has called skipTrack
skipIssued(t) ==
    sessionSkips' = IF event'.skipped THEN sessionSkips \cup {skipTrackRequest(t)}
                                      ELSE sessionSkips

\* the session driver, with the song counter left alone
Init == SessionInit /\ DriverAlone

SessionNext ==
    \/ StartSession
    \/ StopSession
    \/ \E t \in timeouts : SliceBoundary(t)
    \/ Tick
    \/ incrementMinutes
    \/ decrementMinutes
    \/ setIncludeThirtySeconds
    \/ selectSliceLength
    \/ resetPlan
    \/ SetTokens
    \/ Unmount
    \/ AdvanceClock

Next ==
    /\ SessionNext
    /\ UNCHANGED <<counterOnlyVars, observerOnlyVars, authOnlyVars, planOnlyVars, historyOnlyVars, skipOnlyVars, normalizeOnlyVars>>

vars == <<clock, tokens, plan, edits, state, timersRef, tickRef, timeouts,
          intervals, mounted, skipCalls, event, player, track, counter,
          activeTrackRef, lastFinalizedTrackIdRef, isBusy, skipRequests, firstSong,
          trackError, isLoading, initialized, isActive, activations, pollRef, pollMs,
          fetches, fetchCount, settled, expiresAt, hasRefreshToken, isReady,
          refreshTimeoutRef, refreshingRef, refreshRequests, joinedCalls, refreshCount,
          planInput, finalizedSince, finalizedAcc, skippedTrack, liveResult, sessionSkips,
          failedSkip, responseBody, builtTrack>>

Spec == Init /\ [][Next]_vars

\* stored plans of the runs that are followed to their end: one minute, with or
\* without thirty seconds, in slices of 60 s
FairStoredInputs ==
    {StoredPlan(Num(1), thirty, Num(60)) : thirty \in BOOLEAN}

FairInit == SessionInitFrom(FairStoredInputs) /\ DriverAlone

\* what a step of the session driver leaves alone
driverOnly ==
    UNCHANGED <<counterOnlyVars, observerOnlyVars, authOnlyVars, planOnlyVars,
                historyOnlyVars, skipOnlyVars, normalizeOnlyVars>>

\* the session driver with the plan operations that shorten or reset the plan,
\* and without the display tick
FairNext ==
    /\ \/ StartSession
       \/ StopSession
       \/ \E t \in timeouts : SliceBoundary(t)
       \/ decrementMinutes
       \/ resetPlan
       \/ SetTokens
       \/ Unmount
       \/ AdvanceClock
    /\ driverOnly

\* the browser runs a timeout that is due, and time does not stand still
FairSpec ==
    /\ FairInit
    /\ [][FairNext]_vars
    /\ WF_vars((\E t \in timeouts : SliceBoundary(t)) /\ driverOnly)
    /\ WF_vars(AdvanceClock /\ driverOnly)

\* stored plans of the runs that follow the skip requests: 30 s and 60 s slices
SkipStoredInputs ==
    {StoredPlan(Num(m), thirty, Num(secs)) :
        m \in {1}, thirty \in BOOLEAN, secs \in {30, 60}}

SkipInit == SessionInitFrom(SkipStoredInputs) /\ DriverAlone

\* the session driver with its skip requests followed to their end, the plan fixed
SkipNext ==
    /\ \/ StartSession /\ UNCHANGED skipOnlyVars
       \/ StopSession /\ UNCHANGED skipOnlyVars
       \/ \E t \in timeouts : SliceBoundary(t) /\ skipIssued(t) /\ UNCHANGED failedSkip
       \/ SkipSettled
       \/ Tick /\ UNCHANGED skipOnlyVars
       \/ SetTokens /\ UNCHANGED skipOnlyVars
       \/ Unmount /\ UNCHANGED skipOnlyVars
       \/ AdvanceClock /\ UNCHANGED skipOnlyVars
    /\ UNCHANGED <<counterOnlyVars, observerOnlyVars, authOnlyVars, planOnlyVars,
                   historyOnlyVars, normalizeOnlyVars>>

SkipSpec == SkipInit /\ [][SkipNext]_vars

\* the song counter, with the session driver left alone
CounterSpecInit ==
    /\ clock = PlayStepMs
    /\ tokens \in {"tokA", NULL}
    /\ plan = DEFAULT_PLAN
    /\ edits = 0
    /\ state = IdleState
    /\ timersRef = {}
    /\ tickRef = Absent
    /\ timeouts = {}
    /\ intervals = {}
    /\ mounted = TRUE
    /\ skipCalls = 0
    /\ event = NoEvent
    /\ CounterInit
    /\ ObserverIdle
    /\ AuthIdle

\* one step of the song counter or of what it observes
CounterStep ==
    \/ CounterStart
    \/ CounterStop
    \/ CounterSkip
    \/ CounterSkipDone
    \/ Poll
    \/ CounterCredentialLost
    \/ CounterCredentialSet
    \/ PlayerAction
    \/ AdvanceTime

\* the track finalized last in the run, after a step of the counter: none outside
\* a run and after start(); the track of an accumulator that was cleared; none
\* again once an accumulator for another track exists
finalizedAfter(since, active, nextActive, nextStatus, started) ==
    IF nextStatus # "running" \/ started THEN NULL
    ELSE IF nextActive = NoActive
    THEN IF active # NoActive THEN active.trackId ELSE since
    ELSE IF nextActive.trackId = since THEN since ELSE NULL

\* the track skip() has finalized, kept while the counter runs on without a new
\* start() and the snapshots that arrive go on reporting that track
skippedAfter(skipped, op, finalized, snapshot, nextStatus, started) ==
    IF nextStatus # "running" \/ started THEN NULL
    ELSE IF op = "counterSkip" /\ finalized # NoActive THEN finalized.trackId
    ELSE IF snapshot = NoTrack \/ snapshot.trackId # skipped THEN NULL
    ELSE skipped

\* the accumulator a step of a running counter has finalized: the one skip() or
\* stop() found, and the one that is gone, or replaced by the accumulator of
\* another track, after a snapshot
finalizedBy(status, active, nextActive, op, started) ==
    IF /\ status = "running"
       /\ ~started
       /\ active # NoActive
       /\ \/ op \in {"counterSkip", "counterStop", "credentialLost"}
          \/ nextActive = NoActive
          \/ nextActive.trackId # active.trackId
    THEN active
    ELSE NoActive

CounterNext ==
    /\ CounterStep
    /\ finalizedAcc' =
          finalizedBy(counter.status, activeTrackRef, activeTrackRef', event'.op,
                      event'.op = "counterStart" /\ ~event'.noop)
    /\ UNCHANGED <<liveResult, skipOnlyVars, normalizeOnlyVars>>
    /\ skippedTrack' =
          skippedAfter(skippedTrack, event'.op, finalizedAcc', track', counter'.status,
                       event'.op = "counterStart" /\ ~event'.noop)
    /\ finalizedSince' =
          finalizedAfter(finalizedSince, activeTrackRef, activeTrackRef', counter'.status,
                         event'.op = "counterStart" /\ ~event'.noop)
    /\ UNCHANGED <<observerOnlyVars, authOnlyVars, planOnlyVars>>

CounterSpec == CounterSpecInit /\ [][CounterNext]_vars

\* the observer, mounted with or without a credential: the effect has run once
ObserverInit ==
    /\ clock = PlayStepMs
    /\ plan = DEFAULT_PLAN
    /\ edits = 0
    /\ state = IdleState
    /\ timersRef = {}
    /\ tickRef = Absent
    /\ timeouts = {}
    /\ intervals = {}
    /\ mounted = TRUE
    /\ skipCalls = 0
    /\ event = NoEvent
    /\ CounterInit
    /\ tokens \in Tokens \cup {NULL}
    /\ trackError = NULL
    /\ isLoading = (tokens # NULL)
    /\ initialized = FALSE
    /\ isActive = IF tokens = NULL THEN Absent ELSE 1
    /\ activations = IF tokens = NULL THEN 0 ELSE 1
    /\ pollRef = isActive
    /\ pollMs = DEFAULT_POLL_INTERVAL
    /\ fetchCount = IF tokens = NULL THEN 0 ELSE 1
    /\ fetches = IF tokens = NULL THEN {} ELSE {Fetch(1, 1, player)}
    /\ settled = NoFetch
    /\ AuthIdle

\* a step of the clock and of the playing track, as the observer sees it
observerUntouched ==
    /\ settled' = NoFetch
    /\ UNCHANGED <<trackError, isLoading, initialized, isActive, activations, pollRef,
                   pollMs, fetches, fetchCount, authOnlyVars, planOnlyVars, historyOnlyVars, skipOnlyVars, normalizeOnlyVars>>

\* the remote player plays on by itself while the observer polls
ObserverNext ==
    \/ ObserverSetTokens
    \/ ObserverSetPollMs
    \/ ObserverPoll
    \/ ObserverFetchSettled
    \/ ObserverUnmount
    \/ AdvanceTime /\ observerUntouched

ObserverSpec == ObserverInit /\ [][ObserverNext]_vars

\* snapshots getLiveProgress may be handed: any progress, also outside the track,
\* any duration, observed before or after the time of the call
ProgressSnapshots ==
    {[trackId |-> "A", isPlaying |-> playing, progressMs |-> p * PlayStepMs,
      durationMs |-> d * PlayStepMs, updatedAt |-> u * PlayStepMs] :
        playing \in BOOLEAN, p \in (-1)..(MaxTrackSeconds + 1),
        d \in 0..MaxTrackSeconds, u \in 1..(MaxCounterSteps + 1)}

progressFrame ==
    UNCHANGED <<sessionOnlyVars, observerOnlyVars, authOnlyVars, planOnlyVars,
                finalizedSince, finalizedAcc, skippedTrack, tokens, player, counter,
                activeTrackRef,
                lastFinalizedTrackIdRef, isBusy, skipRequests, firstSong,
                skipOnlyVars, normalizeOnlyVars>>

\* the observer hands over another snapshot
ProgressObserve ==
    \E next \in ProgressSnapshots :
        /\ next # track
        /\ track' = next
        /\ liveResult' = Absent
        /\ event' = Ev("observe")
        /\ UNCHANGED clock
        /\ progressFrame

\* getLiveProgress(track) is called; Date.now() is the clock
ProgressRead ==
    /\ liveResult' = getLiveProgress(track, clock)
    /\ event' = Ev("getLiveProgress")
    /\ UNCHANGED <<track, clock>>
    /\ progressFrame

ProgressTick ==
    /\ clock < (MaxCounterSteps + 1) * PlayStepMs
    /\ clock' = clock + PlayStepMs
    /\ liveResult' = Absent
    /\ event' = Ev("advance")
    /\ UNCHANGED track
    /\ progressFrame

\* a snapshot and a time of day, everything else at rest
ProgressInit ==
    /\ clock = PlayStepMs
    /\ tokens = NULL
    /\ plan = DEFAULT_PLAN
    /\ planInput = NoInput
    /\ edits = 0
    /\ state = IdleState
    /\ timersRef = {}
    /\ tickRef = Absent
    /\ timeouts = {}
    /\ intervals = {}
    /\ mounted = TRUE
    /\ skipCalls = 0
    /\ event = NoEvent
    /\ player = NoPlayback
    /\ track \in ProgressSnapshots
    /\ counter = INITIAL_STATE
    /\ activeTrackRef = NoActive
    /\ lastFinalizedTrackIdRef = NULL
    /\ isBusy = FALSE
    /\ skipRequests = 0
    /\ firstSong = NoFirst
    /\ finalizedSince = NULL
    /\ finalizedAcc = NoActive
    /\ skippedTrack = NULL
    /\ liveResult = Absent
    /\ sessionSkips = {}
    /\ failedSkip = NoSkip
    /\ responseBody = NoBody
    /\ builtTrack = NoBuilt
    /\ ObserverIdle
    /\ expiresAt = Absent
    /\ hasRefreshToken = FALSE
    /\ isReady = TRUE
    /\ refreshTimeoutRef = NoTimer
    /\ refreshingRef = Absent
    /\ refreshRequests = {}
    /\ joinedCalls = 0
    /\ refreshCount = 0

ProgressNext ==
    \/ ProgressObserve
    \/ ProgressRead
    \/ ProgressTick

ProgressSpec == ProgressInit /\ [][ProgressNext]_vars

--------------------------------------------------------------------------
(* The snapshot fetchCurrentTrack builds, as a function of the response body *)

ArtistNames == {"Ann", "Bob"}

RECURSIVE NameLists(_)
\* the lists of at most n artist names
NameLists(n) ==
    IF n = 0 THEN {<<>>}
    ELSE NameLists(n - 1)
         \cup {Append(l, a) : l \in {x \in NameLists(n - 1) : Len(x) = n - 1},
                              a \in ArtistNames}

\* the bodies of success responses that carry an item
ResponseBodies ==
    {[item |-> [id |-> id, artists |-> artists, album |-> album, duration_ms |-> d],
      is_playing |-> playing, progress_ms |-> p] :
        id \in TrackIds,
        artists \in {NotAnArray} \cup {Artists(l) : l \in NameLists(MaxArtists)},
        album \in {NoAlbum, UnnamedAlbum, Album(<<>>), Album(Text("Kind of Blue"))},
        d \in {Absent, PlayStepMs},
        playing \in {"undefined", "true", "false"},
        p \in {Absent, 0, PlayStepMs}}

normalizeFrame ==
    UNCHANGED <<sessionOnlyVars, counterOnlyVars, observerOnlyVars, authOnlyVars,
                planOnlyVars, historyOnlyVars, skipOnlyVars, tokens>>

\* the lines of fetchCurrentTrack that build nextTrack; Date.now() is the clock
NormalizeBuild ==
    /\ builtTrack = NoBuilt
    /\ builtTrack' = buildTrack(responseBody, clock)
    /\ event' = Ev("nextTrack")
    /\ UNCHANGED <<responseBody, clock>>
    /\ normalizeFrame

\* time passes between the response and the next poll
NormalizeTick ==
    /\ clock < (MaxSteps + 1) * ClockStepMs
    /\ clock' = clock + ClockStepMs
    /\ builtTrack' = NoBuilt
    /\ event' = Ev("advance")
    /\ UNCHANGED responseBody
    /\ normalizeFrame

\* a response body, everything else at rest
NormalizeInit ==
    /\ SessionInitFrom({NothingStored})
    /\ tokens = NULL
    /\ ObserverIdle
    /\ AuthIdle
    /\ player = NoPlayback
    /\ track = NoTrack
    /\ counter = INITIAL_STATE
    /\ activeTrackRef = NoActive
    /\ lastFinalizedTrackIdRef = NULL
    /\ isBusy = FALSE
    /\ skipRequests = 0
    /\ firstSong = NoFirst
    /\ finalizedSince = NULL
    /\ finalizedAcc = NoActive
    /\ skippedTrack = NULL
    /\ liveResult = Absent
    /\ sessionSkips = {}
    /\ failedSkip = NoSkip
    /\ responseBody \in ResponseBodies
    /\ builtTrack = NoBuilt

NormalizeNext ==
    \/ NormalizeBuild
    \/ NormalizeTick

NormalizeSpec == NormalizeInit /\ [][NormalizeNext]_vars

\* credentials the mount effect may find in storage
StoredCreds(nowMs) ==
    {NoCred}
    \cup {Cred("tokA", nowMs + life, refreshable) :
            life \in Lifetimes, refreshable \in BOOLEAN}

\* the provider after its mount effect, everything else at rest
AuthInit ==
    /\ clock = ClockStepMs
    /\ plan = DEFAULT_PLAN
    /\ edits = 0
    /\ state = IdleState
    /\ timersRef = {}
    /\ tickRef = Absent
    /\ timeouts = {}
    /\ intervals = {}
    /\ mounted = TRUE
    /\ skipCalls = 0
    /\ event = NoEvent
    /\ player = NoPlayback
    /\ track = NoTrack
    /\ counter = INITIAL_STATE
    /\ activeTrackRef = NoActive
    /\ lastFinalizedTrackIdRef = NULL
    /\ isBusy = FALSE
    /\ skipRequests = 0
    /\ firstSong = NoFirst
    /\ finalizedSince = NULL
    /\ finalizedAcc = NoActive
    /\ skippedTrack = NULL
    /\ liveResult = Absent
    /\ sessionSkips = {}
    /\ failedSkip = NoSkip
    /\ responseBody = NoBody
    /\ builtTrack = NoBuilt
    /\ ObserverIdle
    /\ planInput = NoInput
    /\ \E stored \in StoredCreds(ClockStepMs) :
          LET a == initialLoad(stored, ClockStepMs)
          IN /\ tokens = a.tokens.accessToken
             /\ expiresAt = a.tokens.expiresAt
             /\ hasRefreshToken = a.tokens.hasRefreshToken
             /\ refreshTimeoutRef = a.timer
             /\ refreshingRef = a.refreshing
             /\ refreshRequests = a.requests
             /\ joinedCalls = a.joined
             /\ refreshCount = a.count
             /\ isReady = (a.requests = {})

AuthNext ==
    \/ AuthSetTokens
    \/ AuthRefreshTokens
    \/ AuthRefreshTimer
    \/ AuthRefreshSettled
    \/ /\ AdvanceClock
       /\ UNCHANGED <<counterOnlyVars, observerOnlyVars, authOnlyVars, planOnlyVars, historyOnlyVars, skipOnlyVars, normalizeOnlyVars>>

AuthSpec == AuthInit /\ [][AuthNext]_vars

\* what localStorage may hold when useIntervalPlan is first rendered: nothing, a
\* value that is no plan, a plan, or a plan of the older format
StoredMinutes ==
    {Nullish, NonFinite, Num(-2), Half(-1), Num(0), Half(0), Num(3), Half(4),
     Num(MaxMinutes)}

PlanStoredInputs ==
    {NothingStored, StoredInvalid}
    \cup {StoredPlan(m, thirty, secs) :
            m \in StoredMinutes, thirty \in BOOLEAN, secs \in SliceArgs}
    \cup {StoredLegacy(m, totalSeconds, sliceMinutes, sliceSeconds) :
            m \in StoredMinutes, totalSeconds \in {Nullish, Num(0), Half(29), Num(30)},
            sliceMinutes \in 0..4, sliceSeconds \in {0, 14, 15, 30, 45}}

\* the arguments loadPlan passes to clampMinutes and sanitizeSliceSeconds
loadInput(stored) ==
    IF stored.kind = "plan"
    THEN Input(OrElse(stored.totalMinutes, Num(DEFAULT_PLAN.totalMinutes)),
               stored.sliceLengthSeconds)
    ELSE IF stored.kind = "legacy"
    THEN Input(OrElse(stored.totalMinutes, Num(10)),
               Num(stored.sliceMinutes * 60 + stored.sliceSeconds))
    ELSE NoInput

\* useIntervalPlan after its first render, everything else at rest
PlanInit ==
    /\ clock = ClockStepMs
    /\ tokens = NULL
    /\ edits = 0
    /\ state = IdleState
    /\ timersRef = {}
    /\ tickRef = Absent
    /\ timeouts = {}
    /\ intervals = {}
    /\ mounted = TRUE
    /\ skipCalls = 0
    /\ event = NoEvent
    /\ player = NoPlayback
    /\ track = NoTrack
    /\ counter = INITIAL_STATE
    /\ activeTrackRef = NoActive
    /\ lastFinalizedTrackIdRef = NULL
    /\ isBusy = FALSE
    /\ skipRequests = 0
    /\ firstSong = NoFirst
    /\ finalizedSince = NULL
    /\ finalizedAcc = NoActive
    /\ skippedTrack = NULL
    /\ liveResult = Absent
    /\ sessionSkips = {}
    /\ failedSkip = NoSkip
    /\ responseBody = NoBody
    /\ builtTrack = NoBuilt
    /\ ObserverIdle
    /\ expiresAt = Absent
    /\ hasRefreshToken = FALSE
    /\ isReady = TRUE
    /\ refreshTimeoutRef = NoTimer
    /\ refreshingRef = Absent
    /\ refreshRequests = {}
    /\ joinedCalls = 0
    /\ refreshCount = 0
    /\ \E stored \in PlanStoredInputs :
          /\ plan = loadPlan(stored)
          /\ planInput = loadInput(stored)

PlanNext ==
    \/ PlanIncrementMinutes
    \/ PlanDecrementMinutes
    \/ PlanSetIncludeThirtySeconds
    \/ PlanSelectSliceLength
    \/ PlanResetPlan

PlanSpec == PlanInit /\ [][PlanNext]_vars

--------------------------------------------------------------------------
(* Claims about the Interval Session Driver *)

lastIndex == Len(stats.timeline) - 1

\* two timelines differ in their slice count or in some slice's durationMs or endMs
boundariesDiffer(old, new) ==
    \/ Len(old) # Len(new)
    \/ \E i \in 1..Len(old) :
          old[i].durationMs # new[i].durationMs \/ old[i].endMs # new[i].endMs

\* C1: every plan edit that changes the computed timeline (its slice count, or a
\* slice's durationMs or endMs) while the session is running or completed resets
\* the session to idle and leaves no slice action of the old timeline pending.
C1_PlanChangeResetsSession ==
    [][(/\ state.status \in {"running", "completed"}
        /\ boundariesDiffer(computeTimeline(plan).timeline, computeTimeline(plan').timeline))
       => (state' = IdleState /\ timeouts' = {})]_vars

\* C2: after stopSession the state is idle with startedAt absent and index 0, and
\* as long as the session is idle no slice action and no tick is pending, so no
\* boundary callback can run before the next start.
C2_StopLeavesNothingPending ==
    /\ event.op = "stop" => state = IdleState
    /\ state.status = "idle" =>
         /\ state = IdleState
         /\ timeouts = {} /\ timersRef = {}
         /\ intervals = {} /\ tickRef = Absent

C2_Witness == event.op = "stop" /\ event.pendingBefore > 0

\* C3: when the action of slice i has fired, currentSliceIndex is min(i+1, last),
\* the skip command was issued iff slice i has skipAfter, and the status is
\* completed with the tick stopped iff i is the last slice, running otherwise.
C3_BoundaryEffect ==
    event.op = "boundary" =>
        /\ event.index \in 0..lastIndex
        /\ state.currentSliceIndex = Min(event.index + 1, lastIndex)
        /\ event.skipped <=> stats.timeline[event.index + 1].skipAfter
        /\ event.index = lastIndex =>
             state.status = "completed" /\ intervals = {} /\ tickRef = Absent
        /\ event.index # lastIndex =>
             state.status = "running" /\ intervals # {}

C3_Witness == event.op = "boundary" /\ event.index = lastIndex /\ lastIndex >= 1

\* C4: an accepted startSession leaves status running, startedAt the current time
\* and index 0, one tick running, and exactly one pending action per slice, the
\* one of slice i due at startedAt + slice[i].endMs.
C4_StartSchedules ==
    (event.op = "start" /\ ~event.noop) =>
        /\ state = [status |-> "running", startedAt |-> clock, currentSliceIndex |-> 0]
        /\ tickRef # Absent /\ intervals = {tickRef}
        /\ timersRef = timeouts
        /\ Cardinality(timeouts) = Len(stats.timeline)
        /\ \A i \in 1..Len(stats.timeline) :
             \E t \in timeouts :
                 /\ t.index = i - 1
                 /\ t.due = state.startedAt + stats.timeline[i].endMs

C4_Witness ==
    event.op = "start" /\ ~event.noop /\ event.pendingBefore > 0 /\ Len(stats.timeline) >= 2

\* C5: startSession with no credential or with an empty timeline changes nothing:
\* state, timers, tick and skip commands are as before, the session is not
\* running, nothing is pending, and with an empty timeline the status is idle.
C5_RejectedStartIsNoOp ==
    [][(event'.op = "start" /\ (tokens = NULL \/ Len(stats.timeline) = 0))
       => /\ UNCHANGED <<state, timersRef, tickRef, timeouts, intervals, skipCalls>>
          /\ state'.status # "running"
          /\ timeouts' = {} /\ intervals' = {}
          /\ Len(stats.timeline) = 0 => state'.status = "idle"]_vars

C5_Witness ==
    event.op = "start" /\ event.noop /\ tokens # NULL /\ Len(stats.timeline) = 0

\* C6: when the credential is lost while the session is running the session is
\* reset to idle, and while no credential is held the session is never running
\* and no slice action or tick is pending.
C6_CredentialLossStops ==
    /\ (event.op = "credentialLost" /\ event.pendingBefore > 0) => state = IdleState
    /\ tokens = NULL =>
         /\ state.status # "running"
         /\ timeouts = {}
         /\ intervals = {}

C6_Witness == event.op = "credentialLost" /\ event.pendingBefore > 0

\* C7: slice actions fire in timeline order: the action that fires is the one of
\* the current slice, every action still pending has a larger index, and
\* currentSliceIndex does not decrease.
C7_BoundariesInOrder ==
    [][event'.op = "boundary"
       => /\ event'.index = state.currentSliceIndex
          /\ state'.currentSliceIndex >= state.currentSliceIndex
          /\ \A u \in timeouts' : u.index > event'.index]_vars

C7_Witness == event.op = "boundary" /\ event.index >= 1 /\ timeouts # {}

--------------------------------------------------------------------------
(* Claims about the Song Completion Counter *)

\* C8: when the track start() began with, at progress s of duration d, has played
\* undisturbed to its end and another track is reported, the record made for it
\* has playedDurationMs = d - s.
C8_NaturalFinishCreditsRemainder ==
    (/\ event.op = "snapshot"
     /\ firstSong # NoFirst
     /\ track # NoTrack
     /\ track.trackId # firstSong.trackId)
    => counter.lastSong =
         CompletedSong(firstSong.trackId,
                       firstSong.durationMs - firstSong.startProgressMs)

\* C9: skip() with an accumulator for A whose live progress p exceeds
\* startProgressMs makes exactly one record for A, of
\* clamp(p, startProgressMs, durationMs) - startProgressMs; and while A is the last
\* finalized track with no accumulator, a snapshot of another track B begins
\* tracking B at its live progress and makes no further record.
C9_SkipFinalizesOnce ==
    [][/\ (/\ event'.op = "counterSkip"
           /\ counter.status = "running"
           /\ activeTrackRef # NoActive
           /\ track # NoTrack
           /\ getLiveProgress(track, clock) > activeTrackRef.startProgressMs)
          => LET a == activeTrackRef
                 p == getLiveProgress(track, clock)
                 played == Min(a.durationMs, Max(a.startProgressMs, p))
                           - a.startProgressMs
             IN /\ counter'.songsCompleted = counter.songsCompleted + 1
                /\ counter'.totalElapsedMs = counter.totalElapsedMs + played
                /\ counter'.lastSong = CompletedSong(a.trackId, played)
                /\ activeTrackRef' = NoActive
                /\ lastFinalizedTrackIdRef' = a.trackId
       /\ (/\ event'.op = "snapshot"
           /\ counter.status = "running"
           /\ activeTrackRef = NoActive
           /\ lastFinalizedTrackIdRef # NULL
           /\ track' # NoTrack
           /\ track'.trackId # lastFinalizedTrackIdRef)
          => /\ activeTrackRef' =
                  [trackId |-> track'.trackId,
                   durationMs |-> track'.durationMs,
                   startProgressMs |-> getLiveProgress(track', clock'),
                   latestProgressMs |-> getLiveProgress(track', clock')]
             /\ counter' = counter]_vars

C9_Witness ==
    /\ event.op = "snapshot"
    /\ counter.status = "running"
    /\ counter.songsCompleted = 1
    /\ counter.lastSong[1] = "A"
    /\ activeTrackRef.trackId = "B"
    /\ activeTrackRef.startProgressMs = activeTrackRef.latestProgressMs
    /\ isBusy

\* C10: stop() while running with nothing completed and an accumulator whose
\* latestProgressMs still equals its startProgressMs makes no record: afterwards
\* songsCompleted = 0, totalElapsedMs = 0, lastSong is absent and status is idle.
C10_StopWithoutProgress ==
    [][(/\ event'.op = "counterStop"
        /\ counter.status = "running"
        /\ counter.songsCompleted = 0
        /\ activeTrackRef # NoActive
        /\ activeTrackRef.latestProgressMs = activeTrackRef.startProgressMs)
       => /\ counter'.songsCompleted = 0
          /\ counter'.totalElapsedMs = 0
          /\ counter'.lastSong = NoSong
          /\ counter'.status = "idle"
          /\ activeTrackRef' = NoActive]_vars

C10_Witness ==
    /\ event.op = "counterStop" /\ ~event.noop
    /\ counter.status = "idle"
    /\ counter.songsCompleted = 0
    /\ track # NoTrack /\ track.isPlaying

\* C11: status goes idle -> running only by a start() made with a credential and a
\* playing snapshot, and running -> idle only by stop() (called by the user or by
\* the credential-loss effect); a start() without a playing track or without a
\* credential leaves the status (idle stays idle) and the totals as they were and
\* sets an error message.
C11_StatusTransitions ==
    [][/\ (counter.status = "idle" /\ counter'.status = "running")
          => /\ event'.op = "counterStart"
             /\ tokens # NULL
             /\ track # NoTrack /\ track.isPlaying
       /\ (counter.status = "running" /\ counter'.status = "idle")
          => event'.op \in {"counterStop", "credentialLost"}
       /\ (/\ event'.op = "counterStart"
           /\ (tokens = NULL \/ track = NoTrack \/ ~track.isPlaying))
          => /\ counter'.status = counter.status
             /\ counter'.songsCompleted = counter.songsCompleted
             /\ counter'.totalElapsedMs = counter.totalElapsedMs
             /\ counter'.lastSong = counter.lastSong
             /\ counter'.error \in {ErrStartPlayback, ErrAccessExpired}]_vars

C11_Witness ==
    /\ event.op = "counterStart" /\ event.noop
    /\ counter.status = "idle"
    /\ counter.songsCompleted = 1
    /\ counter.error = ErrStartPlayback

--------------------------------------------------------------------------
(* Claims about the Live Playback Observer *)

\* C12: a response that arrives after the activation that issued its request was
\* deactivated (credential cleared or replaced, poll interval changed, teardown)
\* writes nothing to the observer state; and while no credential is held the state
\* is track = null, error = null, isLoading = false, whatever arrives.
C12_NoStaleWrite ==
    /\ [](tokens = NULL => (track = NoTrack /\ trackError = NULL /\ ~isLoading))
    /\ [][(event'.op = "fetchSettled" /\ (settled'.act # isActive \/ ~mounted))
           => UNCHANGED <<track, trackError, isLoading, initialized>>]_vars

C12_Witness ==
    /\ event.op = "fetchSettled"
    /\ tokens = NULL
    /\ settled.outcome = "ok"
    /\ ~settled.applied
    /\ fetches # {}

\* C14: the response of a poll that is applied maps to the state by its outcome:
\* 204 or no item gives track = null and error = null; a rejected fetch or a
\* non-success status gives track = null and error = the failure message; a body
\* with an item gives track = the new snapshot and error = null.
C14_OutcomeMapping ==
    [][(event'.op = "fetchSettled" /\ settled'.applied)
       => /\ settled'.outcome \in {"noContent", "noItem"}
             => (track' = NoTrack /\ trackError' = NULL)
          /\ settled'.outcome \in {"httpErrorMessage", "httpError", "networkError"}
             => /\ track' = NoTrack
                /\ trackError' = fetchErrorMessage(settled'.outcome)
                /\ trackError' # NULL
          /\ settled'.outcome = "ok"
             => /\ track' = nextTrack(settled'.payload, clock)
                /\ track' # NoTrack
                /\ trackError' = NULL]_vars

C14_Witness ==
    /\ event.op = "fetchSettled"
    /\ settled.applied
    /\ settled.outcome = "httpError"
    /\ settled.seq > 1
    /\ trackError = ErrLoadTrack
    /\ track = NoTrack

--------------------------------------------------------------------------
(* Claims about the credential provider *)

\* C13: at most one token-refresh request is in flight at any time.
C13_SingleRefreshInFlight == Cardinality(refreshRequests) <= 1


--------------------------------------------------------------------------
(* Claims about the Interval Plan Model: useIntervalPlan.ts *)

RECURSIVE SumDurations(_)
SumDurations(timeline) ==
    IF timeline = <<>> THEN 0 ELSE Head(timeline).durationMs + SumDurations(Tail(timeline))

\* C15: for every plan with a total duration above zero, the timeline starts at 0,
\* every slice ends at its start plus its duration, every slice starts where the
\* one before it ends, and the durations add up to the total duration, so the
\* last slice ends at the total duration.
C15_TimelineContiguous ==
    LET timeline == stats.timeline
        n == Len(timeline)
    IN totalMs(plan) > 0 =>
          /\ n >= 1
          /\ timeline[1].startMs = 0
          /\ \A i \in 1..n : timeline[i].endMs = timeline[i].startMs + timeline[i].durationMs
          /\ \A i \in 1..(n - 1) : timeline[i].endMs = timeline[i + 1].startMs
          /\ SumDurations(timeline) = totalMs(plan)
          /\ timeline[n].endMs = totalMs(plan)

\* a plan with several full slices and a shorter last one
C15_Witness ==
    /\ totalMs(plan) > 0
    /\ Len(stats.timeline) >= 3
    /\ stats.remainderMs > 0
    /\ event.op = "selectSliceLength"


\* C16: in every timeline that is not empty, the last slice is the only one whose
\* skipAfter is false, and skipCount is the number of slices minus one.
C16_OnlyLastKeepsPlaying ==
    LET timeline == stats.timeline
        n == Len(timeline)
    IN n > 0 =>
          /\ \A i \in 1..n : timeline[i].skipAfter = (i # n)
          /\ Cardinality({i \in 1..n : ~timeline[i].skipAfter}) = 1
          /\ stats.skipCount = n - 1

\* the default plan after a reset: five slices of two minutes, four skips
C16_Witness ==
    /\ event.op = "resetPlan"
    /\ Len(stats.timeline) = 5
    /\ stats.skipCount = 4
    /\ \A i \in 1..5 : stats.timeline[i].durationMs = 120000

\* C17: for a total duration above zero the timeline has fullSlices slices, and one
\* more when there is a remainder or no full slice; every slice lasts sliceMs,
\* except that a remainder above zero is the duration of the last slice, and
\* isRemainder is true for that slice and no other.
C17_SliceCountAndDurations ==
    LET timeline == stats.timeline
        n == Len(timeline)
        sliceMs == plan.sliceLengthSeconds * 1000
        fullSlices == totalMs(plan) \div sliceMs
        remainderMs == totalMs(plan) - fullSlices * sliceMs
    IN totalMs(plan) > 0 =>
          /\ stats.fullSlices = fullSlices
          /\ stats.remainderMs = remainderMs
          /\ n = (IF remainderMs > 0 \/ fullSlices = 0 THEN fullSlices + 1 ELSE fullSlices)
          /\ n >= 1
          /\ \A i \in 1..n :
                /\ timeline[i].isRemainder = (i = n /\ remainderMs > 0)
                /\ timeline[i].durationMs =
                       (IF i = n /\ remainderMs > 0 THEN remainderMs ELSE sliceMs)

\* three and a half minutes in slices of one minute: three full slices, then thirty
\* seconds
C17_Witness ==
    /\ plan = [totalMinutes |-> 3, includeThirtySeconds |-> TRUE, sliceLengthSeconds |-> 60]
    /\ event.op = "setIncludeThirtySeconds"
    /\ Len(stats.timeline) = 4
    /\ stats.timeline[4].isRemainder
    /\ stats.timeline[4].durationMs = 30000

\* C18: a plan of zero minutes without the extra thirty seconds has an empty
\* timeline, no full slice, no remainder and no skip.
C18_EmptyPlan ==
    (plan.totalMinutes = 0 /\ ~plan.includeThirtySeconds) =>
        /\ stats.timeline = <<>>
        /\ stats.fullSlices = 0
        /\ stats.remainderMs = 0
        /\ stats.skipCount = 0
        /\ stats.totalDurationMs = 0

\* the last minute has been taken off the plan
C18_Witness ==
    /\ event.op = "decrementMinutes"
    /\ plan.totalMinutes = 0
    /\ ~plan.includeThirtySeconds
    /\ stats.timeline = <<>>


\* C19: after loading from storage and after any sequence of plan operations, the
\* slice length is one of the seven options and the minutes are a non-negative
\* integer; taking a minute off a plan of zero minutes leaves zero minutes.
C19_PlanStaysValid ==
    /\ [](/\ plan.sliceLengthSeconds \in SLICE_OPTIONS_SECONDS
          /\ plan.totalMinutes \in Nat
          /\ plan.includeThirtySeconds \in BOOLEAN)
    /\ [][(event'.op = "decrementMinutes" /\ plan.totalMinutes = 0)
             => plan'.totalMinutes = 0]_vars

\* a minute is taken off a plan of zero minutes, whose slice length was computed
\* from a number above all options
C19_Witness ==
    /\ event.op = "decrementMinutes"
    /\ planInput.prevMinutes = 0
    /\ plan.totalMinutes = 0
    /\ plan.sliceLengthSeconds = 210

Abs(n) == IF n < 0 THEN -n ELSE n

\* the option nearest to a finite number, by rounding to a multiple of 30 (a tie
\* goes up) and clamping to [30, 210]
NearestOption(value) ==
    CHOOSE o \in SLICE_OPTIONS_SECONDS :
        /\ \A other \in SLICE_OPTIONS_SECONDS :
               Abs(2 * o - Twice(value)) <= Abs(2 * other - Twice(value))
        /\ \A other \in SLICE_OPTIONS_SECONDS :
               (Abs(2 * o - Twice(value)) = Abs(2 * other - Twice(value))) => other <= o

\* C20: a slice length computed from a finite number is the option nearest to it
\* (rounded to the nearest multiple of 30, then clamped to [30, 210]); computed
\* from a number that is not finite it is the default 120; a number that is an
\* option is returned unchanged.
C20_SanitizedSliceLength ==
    (planInput.given /\ event.op \in {"init", "selectSliceLength"}) =>
        LET seconds == planInput.seconds
            result == plan.sliceLengthSeconds
        IN /\ ~seconds.finite => result = 120
           /\ seconds.finite =>
                 /\ result = NearestOption(seconds)
                 /\ \A o \in SLICE_OPTIONS_SECONDS : seconds = Num(o) => result = o

\* 45 seconds, as far from 30 as from 60, becomes 60
C20_Witness ==
    /\ event.op = "selectSliceLength"
    /\ planInput.seconds = Num(45)
    /\ plan.sliceLengthSeconds = 60


\* C21: resetPlan from any plan gives the default plan of ten minutes, no extra
\* thirty seconds and slices of two minutes, and resetPlan right after resetPlan
\* gives that same plan again.
C21_ResetIdempotent ==
    [][event'.op = "resetPlan" =>
         /\ plan' = [totalMinutes |-> 10, includeThirtySeconds |-> FALSE,
                     sliceLengthSeconds |-> 120]
         /\ event.op = "resetPlan" => plan' = plan]_vars

\* the plan was reset twice in a row
C21_Witness ==
    /\ event.op = "resetPlan"
    /\ planInput.prevWasReset
    /\ plan = DEFAULT_PLAN


--------------------------------------------------------------------------
(* Further claims about the Song Completion Counter *)

\* a record was appended by the step: songsCompleted went up by one
recordAdded == counter'.songsCompleted = counter.songsCompleted + 1

\* C22: while the counter is running and the accumulator of a track has been
\* finalized into a record, no further record for that track is made before an
\* accumulator for another track has existed; also when the snapshots were the
\* track, no track, the track.
C22_NoSecondRecordForTrack ==
    [][(/\ counter.status = "running"
        /\ finalizedSince # NULL
        /\ counter.lastSong[1] = finalizedSince
        /\ recordAdded)
          => counter'.lastSong[1] # finalizedSince]_vars


\* the progress a finalization is computed from: the live progress of the snapshot
\* where skip() passes it, latestProgressMs of the accumulator otherwise
latestOf(acc) ==
    IF event'.op = "counterSkip" /\ track # NoTrack
    THEN getLiveProgress(track, clock)
    ELSE acc.latestProgressMs

playedMsOf(acc) ==
    Min(acc.durationMs, Max(acc.startProgressMs, latestOf(acc))) - acc.startProgressMs

\* C23: finalizing an accumulator computes the played time as its latest progress,
\* clamped between its start progress and its duration, minus its start progress,
\* which is never negative; a record is made and songsCompleted and
\* totalElapsedMs go up only if that time is above zero, and the accumulator is
\* gone in either case.
C23_FinalizationRule ==
    [][finalizedAcc' # NoActive =>
         LET acc == finalizedAcc'
             playedMs == playedMsOf(acc)
         IN /\ playedMs >= 0
            /\ activeTrackRef' # acc
            /\ activeTrackRef' # NoActive => activeTrackRef'.trackId # acc.trackId
            /\ IF playedMs > 0
               THEN /\ counter'.songsCompleted = counter.songsCompleted + 1
                    /\ counter'.totalElapsedMs = counter.totalElapsedMs + playedMs
                    /\ counter'.lastSong = CompletedSong(acc.trackId, playedMs)
               ELSE /\ counter'.songsCompleted = counter.songsCompleted
                    /\ counter'.totalElapsedMs = counter.totalElapsedMs
                    /\ counter'.lastSong = counter.lastSong]_vars

\* an accumulator with no progress was finalizedAcc by a snapshot without a track:
\* no record, and no accumulator
C23_Witness ==
    /\ event.op = "snapshot"
    /\ track = NoTrack
    /\ finalizedAcc # NoActive
    /\ finalizedAcc.latestProgressMs = finalizedAcc.startProgressMs
    /\ counter.status = "running"
    /\ counter.songsCompleted = 0
    /\ activeTrackRef = NoActive


\* C24: while the counter is running, a snapshot of a track other than the one of
\* the accumulator finalizes that accumulator first, with at most one record and
\* that for the previous track, and then begins an accumulator for the new track
\* whose start and latest progress are the live progress of the snapshot.
C24_TrackChange ==
    [][(/\ event'.op = "snapshot"
        /\ counter.status = "running"
        /\ activeTrackRef # NoActive
        /\ track' # NoTrack
        /\ track'.trackId # activeTrackRef.trackId)
       => /\ finalizedAcc' = activeTrackRef
          /\ activeTrackRef' =
                [trackId |-> track'.trackId,
                 durationMs |-> track'.durationMs,
                 startProgressMs |-> getLiveProgress(track', clock'),
                 latestProgressMs |-> getLiveProgress(track', clock')]
          /\ lastFinalizedTrackIdRef' = NULL
          /\ counter'.status = "running"
          /\ \/ /\ recordAdded
                /\ counter'.lastSong[1] = activeTrackRef.trackId
                /\ counter'.totalElapsedMs =
                      counter.totalElapsedMs + playedMsOf(activeTrackRef)
             \/ counter' = counter]_vars

\* the other track was first seen a second into it, and is counted from there
C24_Witness ==
    /\ event.op = "snapshot"
    /\ counter.status = "running"
    /\ finalizedAcc # NoActive
    /\ activeTrackRef # NoActive
    /\ activeTrackRef.trackId = track.trackId
    /\ activeTrackRef.trackId # finalizedAcc.trackId
    /\ activeTrackRef.startProgressMs = PlayStepMs
    /\ activeTrackRef.latestProgressMs = PlayStepMs


\* C25: while the counter is running, a snapshot of the track of the accumulator
\* changes the latest progress and the duration of the accumulator and nothing
\* else: the counts, the last song, the status and the start progress stay, also
\* when the progress went back or playback is paused.
C25_SameTrackUpdate ==
    [][(/\ event'.op = "snapshot"
        /\ counter.status = "running"
        /\ activeTrackRef # NoActive
        /\ track' # NoTrack
        /\ track'.trackId = activeTrackRef.trackId)
       => /\ counter' = counter
          /\ activeTrackRef' =
                [activeTrackRef EXCEPT
                    !.latestProgressMs = getLiveProgress(track', clock'),
                    !.durationMs = track'.durationMs]
          /\ activeTrackRef'.startProgressMs = activeTrackRef.startProgressMs
          /\ finalizedAcc' = NoActive
          /\ UNCHANGED <<lastFinalizedTrackIdRef, isBusy>>]_vars

\* the snapshot shows the track paused at a progress before the start progress
C25_Witness ==
    /\ event.op = "snapshot"
    /\ counter.status = "running"
    /\ activeTrackRef # NoActive
    /\ track.trackId = activeTrackRef.trackId
    /\ ~track.isPlaying
    /\ activeTrackRef.latestProgressMs = track.progressMs
    /\ activeTrackRef.latestProgressMs < activeTrackRef.startProgressMs
    /\ finalizedAcc = NoActive


\* C26: while the counter is running, a snapshot without a track finalizes the
\* accumulator, if there is one, and leaves none; a snapshot without a track that
\* follows another makes no record and leaves songsCompleted and totalElapsedMs as
\* they are, however many follow.
C26_NoTrackSnapshot ==
    [][(event'.op = "snapshot" /\ counter.status = "running" /\ track' = NoTrack)
       => /\ activeTrackRef' = NoActive
          /\ finalizedAcc' = activeTrackRef
          /\ counter'.songsCompleted =
                counter.songsCompleted
                + (IF activeTrackRef # NoActive /\ playedMsOf(activeTrackRef) > 0
                   THEN 1 ELSE 0)
          /\ track = NoTrack =>
                /\ activeTrackRef = NoActive
                /\ counter' = counter]_vars

\* after a record was made, a second snapshot without a track in a row
C26_Witness ==
    /\ event.op = "snapshot"
    /\ event.again
    /\ track = NoTrack
    /\ counter.status = "running"
    /\ counter.songsCompleted = 1
    /\ activeTrackRef = NoActive
    /\ finalizedAcc = NoActive


\* C27: skip() on a counter that is not running does nothing; on a running counter
\* it finalizes the accumulator before it issues the skip command; when the
\* command has completed isBusy is false, the counts and the last song are those
\* the finalization left, and if the command failed, by a network error or by a
\* response that is not a success, error is set.
C27_SkipFailureSurfaced ==
    /\ [][(event'.op = "counterSkip" /\ counter.status # "running")
            => UNCHANGED <<counter, activeTrackRef, lastFinalizedTrackIdRef, isBusy,
                           skipRequests>>]_vars
    /\ [][(event'.op = "counterSkip" /\ counter.status = "running")
            => /\ activeTrackRef' = NoActive
               /\ finalizedAcc' = activeTrackRef
               /\ skipRequests' = skipRequests + (IF tokens # NULL THEN 1 ELSE 0)]_vars
    /\ [][event'.op = "counterSkipDone"
            => /\ isBusy' = FALSE
               /\ counter'.songsCompleted = counter.songsCompleted
               /\ counter'.totalElapsedMs = counter.totalElapsedMs
               /\ counter'.lastSong = counter.lastSong
               /\ event'.noop => counter'.error # NULL]_vars


\* C28 as stated: a playing snapshot gives the progress plus the time since it was
\* observed (never less than zero), clamped to [0, durationMs]; a paused snapshot
\* gives its progressMs as it is, for every progress and duration.
C28_LiveProgressPausedRaw ==
    event.op = "getLiveProgress" =>
        liveResult =
            IF track.isPlaying
            THEN Min(track.durationMs,
                     Max(0, track.progressMs + Max(0, clock - track.updatedAt)))
            ELSE track.progressMs

\* C28, amended: a playing snapshot gives the progress plus the time since it was
\* observed (never less than zero), clamped to [0, durationMs]; a paused snapshot
\* gives its progressMs clamped to [0, durationMs], which is progressMs itself
\* whenever that lies between 0 and the duration.
C28_LiveProgress ==
    event.op = "getLiveProgress" =>
        /\ liveResult =
              IF track.isPlaying
              THEN Min(track.durationMs,
                       Max(0, track.progressMs + Max(0, clock - track.updatedAt)))
              ELSE Min(track.durationMs, Max(0, track.progressMs))
        /\ (/\ ~track.isPlaying
            /\ 0 <= track.progressMs
            /\ track.progressMs <= track.durationMs) => liveResult = track.progressMs

\* a paused snapshot whose progress is beyond the duration: the duration is returned
C28_Witness ==
    /\ event.op = "getLiveProgress"
    /\ ~track.isPlaying
    /\ track.progressMs > track.durationMs
    /\ liveResult = track.durationMs


\* C29: stop() on a running counter finalizes the accumulator, with a record if
\* and only if its played time is above zero, leaves no accumulator and no
\* last-finalized marker, sets isBusy to false and the status to idle; stop() on an
\* idle counter changes nothing; and whenever the status is idle there is no
\* accumulator.
C29_StopClearsTracking ==
    /\ [](counter.status = "idle" => activeTrackRef = NoActive)
    /\ [][event'.op = "counterStop" =>
            IF counter.status = "idle"
            THEN UNCHANGED <<counter, activeTrackRef, lastFinalizedTrackIdRef, isBusy,
                             skipRequests>>
            ELSE /\ finalizedAcc' = activeTrackRef
                 /\ activeTrackRef' = NoActive
                 /\ lastFinalizedTrackIdRef' = NULL
                 /\ isBusy' = FALSE
                 /\ counter'.status = "idle"
                 /\ counter'.songsCompleted =
                       counter.songsCompleted
                       + (IF activeTrackRef # NoActive /\ playedMsOf(activeTrackRef) > 0
                          THEN 1 ELSE 0)]_vars

\* stop() has finalized an accumulator with progress into the first record
C29_Witness ==
    /\ event.op = "counterStop"
    /\ ~event.noop
    /\ finalizedAcc # NoActive
    /\ finalizedAcc.latestProgressMs > finalizedAcc.startProgressMs
    /\ counter.status = "idle"
    /\ counter.songsCompleted = 1
    /\ counter.lastSong =
          CompletedSong(finalizedAcc.trackId,
                        finalizedAcc.latestProgressMs - finalizedAcc.startProgressMs)
    /\ activeTrackRef = NoActive
    /\ lastFinalizedTrackIdRef = NULL
    /\ ~isBusy

\* Claims about the skip command of the Session Driver

\* C30: a skip command of a slice boundary that fails changes nothing in the
\* Session Driver: the step in which it fails leaves status, startedAt,
\* currentSliceIndex, the pending slice actions, the tick and the count of issued
\* skips as they were and issues no new request, just as a successful one does;
\* and whether or not a skip has failed, a running session of the mounted component
\* has the action of every slice from the current one on pending at its due time, and each boundary that
\* fires advances the session as it does without a failure.
C30_SkipFailureIgnored ==
    /\ [](mounted /\ state.status = "running" =>
            \A i \in state.currentSliceIndex..lastIndex :
                \E t \in timeouts :
                    /\ t.index = i /\ t.start = state.startedAt
                    /\ t.due = state.startedAt + stats.timeline[i + 1].endMs)
    /\ [](event.op = "boundary" =>
            /\ state.currentSliceIndex = Min(event.index + 1, lastIndex)
            /\ state.status = IF event.index = lastIndex THEN "completed" ELSE "running")
    /\ [][event'.op = "skipSettled" =>
            /\ UNCHANGED <<state, timersRef, tickRef, timeouts, intervals, skipCalls>>
            /\ sessionSkips' \subseteq sessionSkips
            /\ sessionSkips' # sessionSkips]_vars

\* the first skip of a three-slice session failed, the second skip was issued all
\* the same, and the session has just completed with its last boundary
C30_Witness ==
    /\ event.op = "boundary" /\ event.index = lastIndex /\ lastIndex = 2
    /\ state.status = "completed" /\ state.currentSliceIndex = 2
    /\ failedSkip = [start |-> state.startedAt, index |-> 0]
    /\ skipCalls = 2

\* Claims about the snapshot the observer builds

\* C31: in the snapshot built from a success response, artistNames is "Unknown
\* artist" when the item's artist list has length 0, and albumName is "Unknown
\* album" when the album name is missing.
C31_Sentinels ==
    event.op = "nextTrack" =>
        /\ (responseBody.item.artists.isArray /\ Len(responseBody.item.artists.names) = 0)
              => builtTrack.artistNames = UnknownArtist
        /\ ~(responseBody.item.album.given /\ responseBody.item.album.named)
              => builtTrack.albumName = UnknownAlbum

C33_PollingSchedule ==
    /\ [](tokens = NULL => pollRef = Absent /\ isActive = Absent)
    /\ [](mounted /\ tokens # NULL => pollRef # Absent /\ pollRef = isActive)
    /\ [][event'.op \in {"credentialSet", "pollMsChanged"} /\ tokens' # NULL =>
            /\ fetchCount' = fetchCount + 1
            /\ fetches' = fetches \cup {Fetch(fetchCount', pollRef', player)}
            /\ pollRef' \notin {Absent, pollRef}]_vars
    /\ [][event'.op = "fetchStarted" =>
            /\ fetchCount' = fetchCount + 1
            /\ fetches' = fetches \cup {Fetch(fetchCount', pollRef, player)}
            /\ UNCHANGED <<pollRef, pollMs, isActive, tokens>>]_vars
    /\ [][event'.op = "fetchSettled" =>
            UNCHANGED <<pollRef, pollMs, isActive, activations, tokens, fetchCount>>]_vars
    /\ [][fetchCount' # fetchCount => tokens' # NULL]_vars

\* the interval fires and a request goes out although the poll before it failed
C33_Witness ==
    /\ event.op = "fetchStarted"
    /\ trackError # NULL /\ track = NoTrack
    /\ tokens # NULL /\ pollRef = isActive
    /\ \E f \in fetches : f.act = isActive /\ f.seq = fetchCount

\* Further claims about the Session Driver

\* C34: in every state of the Session Driver, an idle session has no startedAt
\* and index 0; a running or completed session has a startedAt, a non-empty
\* timeline and an index between 0 and the last index; and a completed session
\* is at the last index.
C34_SessionStateShape ==
    /\ state.status \in {"idle", "running", "completed"}
    /\ state.status = "idle" =>
          state.startedAt = Absent /\ state.currentSliceIndex = 0
    /\ state.status \in {"running", "completed"} =>
          /\ state.startedAt # Absent
          /\ Len(stats.timeline) > 0
          /\ state.currentSliceIndex \in 0..(Len(stats.timeline) - 1)
    /\ state.status = "completed" =>
          state.currentSliceIndex = Len(stats.timeline) - 1

\* a session in the middle of a timeline of three slices, and the plan edited
\* since the application started
C34_Witness ==
    /\ state.status = "running"
    /\ Len(stats.timeline) = 3
    /\ state.currentSliceIndex = 1
    /\ edits > 0

\* C35: a session that has completed has issued exactly timeline length - 1 skip
\* commands, the plan's skipCount; a running session has issued one for each
\* boundary that has fired; a skip command is issued only by a boundary, one at
\* a time, by the boundary of the current slice of the current start and never
\* by the last one; and no slice of the current start has more than one action
\* pending, none of them for a slice whose boundary has fired.
C35_SkipsPerSession ==
    /\ [](state.status = "completed" =>
            skipCalls = Len(stats.timeline) - 1 /\ skipCalls = stats.skipCount)
    /\ [](state.status = "running" => skipCalls = state.currentSliceIndex)
    /\ [](\A t \in timeouts :
            /\ t.start = state.startedAt
            /\ state.status = "running" /\ t.index >= state.currentSliceIndex
            /\ \A u \in timeouts : u.index = t.index => u = t)
    /\ [][skipCalls' > skipCalls =>
            /\ skipCalls' = skipCalls + 1
            /\ event'.op = "boundary" /\ event'.skipped
            /\ event'.index = state.currentSliceIndex
            /\ event'.index < Len(stats.timeline) - 1
            /\ state'.startedAt = state.startedAt]_vars
    /\ [][event'.op = "boundary" /\ event'.index = Len(stats.timeline) - 1 =>
            skipCalls' = skipCalls /\ ~event'.skipped]_vars

\* a session started a second time, before the first had finished, has completed
\* its three slices with two skip commands
C35_Witness ==
    /\ state.status = "completed"
    /\ event.op = "boundary"
    /\ Len(stats.timeline) = 3 /\ skipCalls = 2
    /\ state.startedAt > ClockStepMs

\* the times at which a session of a minute or more can start and still end within
\* the clock's range
StartTimes == {k * ClockStepMs : k \in 1..(MaxSteps - 1)}

\* the session started at time s is running in the mounted component
runningSince(s) == mounted /\ state.status = "running" /\ state.startedAt = s

\* it is, and its last slice ends within the clock's range
startedInTime(s) ==
    runningSince(s) /\ s + stats.totalDurationMs <= (MaxSteps + 1) * ClockStepMs

\* C36: with timeouts that fire when due, a session started at a time that leaves
\* room for its whole duration is eventually completed, unless it is stopped
\* (by stopSession, a plan change or the loss of the credential), started anew
\* or torn down; the status becomes completed only in the step of the last
\* slice's action; and a completed status changes only in a step of stopSession,
\* of a plan operation or of startSession.
C36_RunsToCompletion ==
    /\ \A s \in StartTimes : startedInTime(s) ~> ~runningSince(s)
    /\ [][state'.status = "completed" /\ state.status # "completed" =>
            /\ state.status = "running"
            /\ event'.op = "boundary"
            /\ event'.index = Len(stats.timeline) - 1]_vars
    /\ [][state.status = "completed" /\ state'.status # "completed" =>
            event'.op \in {"stop", "start", "incrementMinutes", "decrementMinutes",
                           "setIncludeThirtySeconds", "selectSliceLength",
                           "resetPlan"}]_vars
    /\ [][state.status = "running" /\ state'.status = "idle" =>
            event'.op \in {"stop", "credentialLost", "incrementMinutes",
                           "decrementMinutes", "setIncludeThirtySeconds",
                           "selectSliceLength", "resetPlan"}]_vars

\* a session of two slices started one step late has just completed
C36_Witness ==
    /\ state.status = "completed" /\ event.op = "boundary"
    /\ state.startedAt = 2 * ClockStepMs
    /\ Len(stats.timeline) = 2 /\ event.index = 1

\* C37: replacing the credential by another access token while a session is
\* running leaves the session state, the pending slice actions and the tick as
\* they were; an accepted startSession binds the access token it finds to every
\* slice action it registers, and nothing rebinds a pending action; and the skip
\* command of a boundary carries the token bound to its action, whatever the
\* credential is by then.
C37_SkipUsesStartToken ==
    /\ [][event'.op = "credentialSet" /\ state.status = "running" =>
            UNCHANGED <<state, timeouts, timersRef, intervals, tickRef, skipCalls>>]_vars
    /\ [][event'.op = "start" /\ ~event'.noop =>
            /\ tokens # NULL
            /\ \A t \in timeouts' : t.tok = tokens /\ t.start = state'.startedAt]_vars
    /\ [][event'.op # "start" => timeouts' \subseteq timeouts]_vars
    /\ [][event'.op = "boundary" /\ event'.skipped =>
            \E t \in timeouts :
                /\ timeouts' = timeouts \ {t}
                /\ t.start = state.startedAt /\ t.index = event'.index
                /\ event'.tok = t.tok /\ event'.tok # NULL]_vars

\* a skip command has just gone out with a token that is no longer the credential
C37_Witness ==
    /\ event.op = "boundary" /\ event.skipped
    /\ tokens # NULL /\ event.tok # tokens
    /\ state.status = "running"

\* an accepted start(): the only operation that sets the totals back to zero
counterRestarted == event'.op = "counterStart" /\ ~event'.noop

\* C38: songsCompleted and totalElapsedMs go down only in an accepted start(),
\* which sets both to zero; in every other step they either both stay or
\* songsCompleted goes up by exactly one and totalElapsedMs by the played time
\* of the record just made, which is that of the finalized accumulator, is
\* above zero and is at most the accumulator's duration; stop() and the loss of
\* the credential never lower them.
C38_TotalsMonotone ==
    /\ [][(\/ counter'.songsCompleted < counter.songsCompleted
           \/ counter'.totalElapsedMs < counter.totalElapsedMs)
          => /\ counterRestarted
             /\ counter'.songsCompleted = 0 /\ counter'.totalElapsedMs = 0]_vars
    /\ [][counterRestarted =>
            counter'.songsCompleted = 0 /\ counter'.totalElapsedMs = 0]_vars
    /\ [][(/\ ~counterRestarted
           /\ \/ counter'.songsCompleted # counter.songsCompleted
              \/ counter'.totalElapsedMs # counter.totalElapsedMs)
          => LET acc == finalizedAcc'
                 playedMs == counter'.totalElapsedMs - counter.totalElapsedMs
             IN /\ counter.status = "running"
                /\ acc # NoActive
                /\ counter'.songsCompleted = counter.songsCompleted + 1
                /\ counter'.lastSong = CompletedSong(acc.trackId, playedMs)
                /\ playedMs = playedMsOf(acc)
                /\ 0 < playedMs /\ playedMs <= acc.durationMs]_vars
    /\ [][event'.op \in {"counterStop", "credentialLost"} =>
            /\ counter'.songsCompleted >= counter.songsCompleted
            /\ counter'.totalElapsedMs >= counter.totalElapsedMs
            /\ finalizedAcc' = NoActive =>
                  /\ counter'.songsCompleted = counter.songsCompleted
                  /\ counter'.totalElapsedMs = counter.totalElapsedMs]_vars

\* a second record has just been added to a total that already held one, while
\* the counter keeps running
C38_Witness ==
    /\ counter.status = "running"
    /\ counter.songsCompleted = 2
    /\ finalizedAcc # NoActive
    /\ counter.lastSong = CompletedSong(finalizedAcc.trackId, counter.lastSong[2])
    /\ 0 < counter.lastSong[2]
    /\ counter.lastSong[2] < counter.totalElapsedMs

\* the observer state shows what response r carried: its snapshot stamped with
\* the time of arrival, no track and no error, or no track and its message
holdsResponse(h, r, nowMs) ==
    /\ h.initialized /\ ~h.isLoading
    /\ IF r.outcome = "ok"
       THEN h.track = nextTrack(r.payload, nowMs) /\ h.error = NULL
       ELSE IF r.outcome \in {"noContent", "noItem"}
       THEN h.track = NoTrack /\ h.error = NULL
       ELSE h.track = NoTrack /\ h.error = fetchErrorMessage(r.outcome)

\* C39: a response that arrives while the observer is mounted and the activation
\* that issued its request is the current one is applied whatever its request
\* number, also when the response of a later request of that activation has been
\* applied just before; the observer state then shows the arriving response's
\* snapshot or error, and a response is left out only for an activation that is
\* over or after the teardown.
C39_ArrivalOrder ==
    /\ [][event'.op = "fetchSettled" =>
            /\ settled'.applied = (mounted /\ settled'.act = isActive)
            /\ settled'.applied => holdsResponse(hookState', settled', clock')
            /\ ~settled'.applied => hookState' = hookState]_vars
    /\ [][(/\ event'.op = "fetchSettled"
           /\ settled.applied /\ mounted
           /\ settled'.act = settled.act /\ settled'.act = isActive
           /\ settled'.seq < settled.seq)
          => holdsResponse(hookState', settled', clock')]_vars

\* the response of the first request has arrived after that of the second request
\* of the same activation and its snapshot, which is no longer what the player
\* does, is the one the observer holds
C39_Witness ==
    /\ event.op = "fetchSettled" /\ settled.applied
    /\ settled.seq = 1 /\ fetchCount = 2 /\ fetches = {}
    /\ activations = 1 /\ isActive = 1 /\ settled.act = 1
    /\ settled.outcome = "ok"
    /\ track = nextTrack(settled.payload, clock)
    /\ settled.payload # player

\* neither total changes in this step
totalsKept ==
    /\ counter'.songsCompleted = counter.songsCompleted
    /\ counter'.totalElapsedMs = counter.totalElapsedMs

\* C40: from the skip() that finalized a track, for as long as the counter runs
\* on without a new start() and the snapshots go on reporting that track, there
\* is no accumulator and no snapshot changes either total; a snapshot of another
\* track starts that track's accumulator, a no-track snapshot starts none and
\* changes no total, and the first snapshot with a track after a no-track
\* snapshot starts an accumulator whatever its track.
C40_SkippedTrackNotRecounted ==
    /\ [](skippedTrack # NULL =>
            counter.status = "running" /\ activeTrackRef = NoActive)
    /\ [][(/\ skippedTrack # NULL
           /\ event'.op = "snapshot"
           /\ track' # NoTrack /\ track'.trackId = skippedTrack)
          => /\ activeTrackRef' = NoActive
             /\ totalsKept
             /\ skippedTrack' = skippedTrack]_vars
    /\ [][(/\ skippedTrack # NULL
           /\ event'.op = "snapshot"
           /\ track' # NoTrack /\ track'.trackId # skippedTrack)
          => /\ activeTrackRef' # NoActive
             /\ activeTrackRef'.trackId = track'.trackId
             /\ totalsKept]_vars
    /\ [][(/\ skippedTrack # NULL
           /\ event'.op = "snapshot"
           /\ track' = NoTrack)
          => activeTrackRef' = NoActive /\ totalsKept]_vars
    /\ [][(/\ counter.status = "running"
           /\ event'.op = "snapshot"
           /\ track = NoTrack /\ track' # NoTrack)
          => /\ activeTrackRef' # NoActive
             /\ activeTrackRef'.trackId = track'.trackId
             /\ totalsKept]_vars

\* a later snapshot still reports the track skip() has finalized and recorded:
\* the counter runs on without an accumulator
C40_Witness ==
    /\ skippedTrack # NULL
    /\ event.op = "snapshot" /\ ~event.noop
    /\ track # NoTrack /\ track.trackId = skippedTrack
    /\ counter.status = "running" /\ counter.songsCompleted = 1
    /\ counter.lastSong[1] = skippedTrack
    /\ activeTrackRef = NoActive

====
